---- MODULE Spec2Model ----
(***************************************************************************)
(* Model of the scheduling engine of OS Scheduler Pro                      *)
(* (src/process.py, src/scheduling_algorithms.py).                         *)
(*                                                                         *)
(* Representation.                                                         *)
(*  - Times (arrival_time, burst_time, remaining_time, time_quantum,       *)
(*    schedule start/end) are Python floats.  They are modelled as         *)
(*    integer numbers of ticks, Unit ticks making the 1.0 time unit the    *)
(*    preemptive algorithms step by, so that fractional times (0.5, 1.5)   *)
(*    are part of the model and every sum and difference is exact.         *)
(*    fcfs_scheduling and calculate_metrics are modelled a second time on  *)
(*    floats of any value (0.01, 3.4), whose sums and differences are      *)
(*    rounded (fcfs_scheduling_float, calculate_metrics_float).            *)
(*    There the sum() of the interpreter is a choice made at each call:    *)
(*    CPython up to 3.11 returns the running float sum, CPython from 3.12  *)
(*    on the running sum with Neumaier's compensation.                     *)
(*  - Process objects live in `heap`, a function from object ids to        *)
(*    Process records; lists hold object ids, so that two lists can hold   *)
(*    the same object, as in Python.                                       *)
(*  - pids are the strings of PidNames; Python compares them               *)
(*    lexicographically, which on these names is their order in PidNames.  *)
(*  - priority None is the value None; priorities are naturals.            *)
(*  - Metric values rounded to 2 decimals are kept in hundredths.          *)
(***************************************************************************)
EXTENDS Integers, Sequences, FiniteSets, TLC

\* ------------------------------------------------------------------ bounds
MaxProcs == 2
MaxArrival == 1
MaxBurst == 3
MaxPriority == 1
MaxQuantum == 2
\* calculate_metrics called on its own: processes in the list, entries in
\* the schedule, latest end of an entry (ticks)
MaxMetricsProcs == 3
MaxEntries == 3
MaxEnd == 2
\* round_robin compared across quanta: latest arrival, longest burst and
\* largest quantum (ticks)
MaxLateArrival == 3
MaxLongBurst == 4
MaxLongQuantum == 3
\* round_robin followed turn by turn: processes in the list
MaxRobinProcs == 3
\* a single process that arrives late: latest arrival and longest burst
\* (ticks); 23 ticks of 160 are the 14.375% that the floats make 14.37
MaxLateStart == 137
MaxLongRun == 23
\* fcfs_scheduling on decimal times: latest arrival and longest burst
\* (hundredths of a time unit)
MaxDecimalArrival == 2
MaxDecimalBurst == 2

\* ------------------------------------------------------- program constants
\* ticks per 1.0 time unit: execute(1.0) runs a process for Unit ticks
Unit == 2
\* Python's None (a missing priority, no current process)
None == 0 - 1
IDLE == "IDLE"
PidNames == <<"P1", "P2", "P3", "P4">>

\* An algorithm name is the list of the pieces its text is made of: one
\* string, or for round_robin the text around the formatted quantum.
NameFCFS == <<"First-Come, First-Served (FCFS)">>
NameSJFNP == <<"Shortest Job First (Non-Preemptive)">>
NameSJFP == <<"Shortest Job First (Preemptive)">>
NamePrioNP == <<"Priority (Non-Preemptive)">>
NamePrioP == <<"Priority (Preemptive)">>

\* ------------------------------------------------------------ Python basics
Min(a, b) == IF a <= b THEN a ELSE b

Last(s) == s[Len(s)]

\* s[:-1] + [e] : the list with its last element replaced
SetLast(s, e) == [s EXCEPT ![Len(s)] = e]

Range(s) == {s[k] : k \in 1..Len(s)}

\* position of a pid in the lexicographic order of the pid strings
PidRank(pid) == CHOOSE k \in 1..Len(PidNames) : PidNames[k] = pid

\* a faulty KeyLess: of two tuples with the same number, the one with the
\* larger pid comes first
KeyLess_larger_pid_first(k1, k2) ==
    \/ k1[1] < k2[1]
    \/ k1[1] = k2[1] /\ PidRank(k1[2]) > PidRank(k2[2])

\* Python's < on 2-tuples (number, pid)
KeyLess(k1, k2) ==
    \/ k1[1] < k2[1]
    \/ k1[1] = k2[1] /\ PidRank(k1[2]) < PidRank(k2[2])

\* ---------------------------------------------------------------- Process
\* Process(pid, arrival_time, burst_time, priority): the dataclass
\* constructor; __post_init__ sets remaining_time to burst_time.
Process(pid, arrival_time, burst_time, priority) ==
    [pid |-> pid, arrival_time |-> arrival_time, burst_time |-> burst_time,
     priority |-> priority, remaining_time |-> burst_time]

\* a faulty is_completed: a process with one tick left counts as completed
is_completed_early(p) == p.remaining_time <= 1

is_completed(p) == p.remaining_time <= 0

\* a faulty execute: the process runs the whole quantum even when it has
\* less than that left
execute_unclipped(h, o, time_quantum) ==
    LET execution_time == time_quantum
    IN  [heap |-> [h EXCEPT ![o].remaining_time = @ - execution_time],
         execution_time |-> execution_time]

\* Process.execute on the object o of heap h: the heap after the call and
\* the value returned.
execute(h, o, time_quantum) ==
    LET execution_time == Min(time_quantum, h[o].remaining_time)
    IN  [heap |-> [h EXCEPT ![o].remaining_time = @ - execution_time],
         execution_time |-> execution_time]

\* ------------------------------------------------------------------- heap
\* a faulty Alloc: the working copies of every call are kept in the same
\* place, right after the objects of the caller's list
Alloc_shared(h, recs) ==
    LET n == Len(recs)
    IN  [heap |-> SubSeq(h, 1, n) \o recs,
         ids |-> [k \in 1..Len(recs) |-> n + k]]

\* Allocation of fresh objects holding the records of the sequence recs.
Alloc(h, recs) ==
    LET n == Len(h)
    IN  [heap |-> h \o recs,
         ids |-> [k \in 1..Len(recs) |-> n + k]]

\* a faulty CopyProcesses: the working list holds the caller's objects
\* instead of copies
CopyProcesses_aliased(h, processes) == [heap |-> h, ids |-> processes]

\* [Process(p.pid, p.arrival_time, p.burst_time, p.priority) for p in processes]
CopyProcesses(h, processes) ==
    Alloc(h, [k \in 1..Len(processes) |->
                Process(h[processes[k]].pid, h[processes[k]].arrival_time,
                        h[processes[k]].burst_time, h[processes[k]].priority)])

\* ---------------------------------------------------------------- sorting
\* The sort and selection keys of the algorithms, each a pair the second
\* component of which is the pid (the key of min(..., key=arrival_time) has
\* no second component: a constant stands for it).
\* a faulty KeyOf: the ready heap of sjf_preemptive is keyed by the whole
\* burst_time
KeyOf_burst_for_remaining(kind, p) ==
    CASE kind = "arrival_pid" -> <<p.arrival_time, p.pid>>
      [] kind = "burst_pid" -> <<p.burst_time, p.pid>>
      [] kind = "priority_pid" -> <<p.priority, p.pid>>
      [] kind = "remaining_pid" -> <<p.burst_time, p.pid>>
      [] kind = "arrival" -> <<p.arrival_time, PidNames[1]>>

\* a faulty KeyOf: the longest job counts as the shortest
KeyOf_longest_first(kind, p) ==
    CASE kind = "arrival_pid" -> <<p.arrival_time, p.pid>>
      [] kind = "burst_pid" -> <<0 - p.burst_time, p.pid>>
      [] kind = "priority_pid" -> <<p.priority, p.pid>>
      [] kind = "remaining_pid" -> <<p.remaining_time, p.pid>>
      [] kind = "arrival" -> <<p.arrival_time, PidNames[1]>>

\* a faulty KeyOf: the shortest job is selected by priority
KeyOf_burst_by_priority(kind, p) ==
    CASE kind = "arrival_pid" -> <<p.arrival_time, p.pid>>
      [] kind = "burst_pid" -> <<p.priority, p.pid>>
      [] kind = "priority_pid" -> <<p.priority, p.pid>>
      [] kind = "remaining_pid" -> <<p.remaining_time, p.pid>>
      [] kind = "arrival" -> <<p.arrival_time, PidNames[1]>>

KeyOf(kind, p) ==
    CASE kind = "arrival_pid" -> <<p.arrival_time, p.pid>>
      [] kind = "burst_pid" -> <<p.burst_time, p.pid>>
      [] kind = "priority_pid" -> <<p.priority, p.pid>>
      [] kind = "remaining_pid" -> <<p.remaining_time, p.pid>>
      [] kind = "arrival" -> <<p.arrival_time, PidNames[1]>>

\* insertion of object o into the list s sorted by key, after equal keys
RECURSIVE InsertSorted(_, _, _, _)
InsertSorted(h, s, o, kind) ==
    IF s = <<>> THEN <<o>>
    ELSE IF KeyLess(KeyOf(kind, h[o]), KeyOf(kind, h[Head(s)]))
         THEN <<o>> \o s
         ELSE <<Head(s)>> \o InsertSorted(h, Tail(s), o, kind)

\* a faulty SortedBy: the list is left in the caller's order
SortedBy_unsorted(h, s, kind) == s

\* sorted(s, key=...) and s.sort(key=...): stable
RECURSIVE SortedBy(_, _, _)
SortedBy(h, s, kind) ==
    IF s = <<>> THEN <<>>
    ELSE InsertSorted(h, SortedBy(h, SubSeq(s, 1, Len(s) - 1), kind), Last(s), kind)

\* min(s, key=...): the first element of s with the least key
RECURSIVE MinBy(_, _, _)
MinBy(h, s, kind) ==
    IF Len(s) = 1 THEN s[1]
    ELSE LET m == MinBy(h, SubSeq(s, 1, Len(s) - 1), kind)
         IN  IF KeyLess(KeyOf(kind, h[Last(s)]), KeyOf(kind, h[m])) THEN Last(s) ELSE m

\* ------------------------------------------------------------------ heapq
\* The ready heap of the preemptive algorithms holds tuples
\* (key, pid, process).  heapq keeps them in a binary heap; the model keeps
\* them as a list in ascending tuple order, which gives heappop the same
\* element (the least tuple).  Two tuples never agree on (key, pid) while
\* pids are unique, so the processes themselves are never compared.
RECURSIVE heappush(_, _)
heappush(q, e) ==
    IF q = <<>> THEN <<e>>
    ELSE IF KeyLess(e, Head(q))
         THEN <<e>> \o q
         ELSE <<Head(q)>> \o heappush(Tail(q), e)

\* heappop: the least tuple and the heap without it
heappop(q) == [item |-> Head(q), heap |-> Tail(q)]

\* ---------------------------------------------------------------- results
\* an empty dict
EmptyMetrics == [x \in {} |-> 0]

SchedulingResult(schedule, metrics, algorithm_name) ==
    [schedule |-> schedule, metrics |-> metrics, algorithm_name |-> algorithm_name]

\* f"Round Robin (Quantum: {time_quantum})": the text around the quantum and
\* the quantum (in ticks) it is formatted from
RoundRobinName(time_quantum) == <<"Round Robin (Quantum: ", time_quantum, ")">>

\* round(num / den, 0) for den > 0, ties to the even integer (Python's round)
RoundHalfEven(num, den) ==
    LET q == num \div den
        r == num - q * den
    IN  IF 2 * r < den THEN q
        ELSE IF 2 * r > den THEN q + 1
        ELSE IF q % 2 = 0 THEN q ELSE q + 1

\* ------------------------------------------------------------ Python floats
\* The metrics are computed in binary floating point (IEEE 754 double).  The
\* times of the model are multiples of 1/Unit and are floats exactly, as are
\* their sums and differences; a quotient or a product is the exact value
\* rounded to Precision significant bits, ties to the even significand.  A
\* positive float is the record [m, e] of value m * 2^e, its significand m a
\* natural number of Precision bits.  Such a number does not fit an integer
\* of the model and is the sequence of its digits to the base Base, the most
\* significant first.
Precision == 53

\* bits to a digit: a digit times a small number fits an integer
DigitBits == 13

Base == 2 ^ DigitBits

\* the digits of a natural number, none for 0
RECURSIVE DigitsOf(_)
DigitsOf(n) == IF n = 0 THEN <<>> ELSE Append(DigitsOf(n \div Base), n % Base)

\* the digits without the leading zeros
RECURSIVE Significant(_)
Significant(digits) ==
    IF digits # <<>> /\ Head(digits) = 0 THEN Significant(Tail(digits))
    ELSE digits

\* the digits of (the number of the digits given) * k + carry
RECURSIVE TimesDigits(_, _, _)
TimesDigits(digits, k, carry) ==
    IF digits = <<>> THEN DigitsOf(carry)
    ELSE LET v == k * Last(digits) + carry
         IN  Append(TimesDigits(SubSeq(digits, 1, Len(digits) - 1), k, v \div Base),
                    v % Base)

\* the quotient (as many digits as given) and the remainder of the number
\* rem * Base^Len + (the number of the digits given) divided by k
RECURSIVE DivideDigits(_, _, _)
DivideDigits(digits, k, rem) ==
    IF digits = <<>> THEN [quot |-> <<>>, rem |-> rem]
    ELSE LET v == rem * Base + Head(digits)
             rest == DivideDigits(Tail(digits), k, v % k)
         IN  [quot |-> <<v \div k>> \o rest.quot, rem |-> rest.rem]

\* the digits of the number of the digits given plus one
RECURSIVE AddOne(_)
AddOne(digits) ==
    IF digits = <<>> THEN <<1>>
    ELSE IF Last(digits) < Base - 1
         THEN SetLast(digits, Last(digits) + 1)
         ELSE Append(AddOne(SubSeq(digits, 1, Len(digits) - 1)), 0)

\* the digits of the number of the digits given times 2^n
ShiftLeft(digits, n) ==
    TimesDigits(digits, 2 ^ (n % DigitBits), 0) \o [i \in 1..(n \div DigitBits) |-> 0]

\* the number of bits of a natural number
RECURSIVE BitLength(_)
BitLength(n) == IF n = 0 THEN 0 ELSE 1 + BitLength(n \div 2)

\* the number of bits of the number of the digits given
BitsIn(digits) ==
    LET s == Significant(digits)
    IN  IF s = <<>> THEN 0 ELSE DigitBits * (Len(s) - 1) + BitLength(Head(s))

\* the order of the numbers of the digits s and t: -1, 0 or 1
RECURSIVE CompareEqualLength(_, _)
CompareEqualLength(s, t) ==
    IF s = <<>> THEN 0
    ELSE IF Head(s) < Head(t) THEN 0 - 1
    ELSE IF Head(s) > Head(t) THEN 1
    ELSE CompareEqualLength(Tail(s), Tail(t))

CompareDigits(s, t) ==
    LET a == Significant(s)
        b == Significant(t)
    IN  IF Len(a) < Len(b) THEN 0 - 1
        ELSE IF Len(a) > Len(b) THEN 1
        ELSE CompareEqualLength(a, b)

\* the float nearest to (quot + rem / k) * 2^e, where quot has Precision
\* bits and rem < k: quot, or quot + 1 when the rest is more than half a
\* unit in the last place, or half a unit and quot is odd
RoundedFloat(quot, rem, k, e) ==
    LET up == 2 * rem > k \/ (2 * rem = k /\ Last(quot) % 2 = 1)
        m == Significant(IF up THEN AddOne(quot) ELSE quot)
    IN  IF BitsIn(m) > Precision
        THEN [m |-> DivideDigits(m, 2, 0).quot, e |-> e + 1]
        ELSE [m |-> m, e |-> e]

\* num / den > 0 brought to den <= num < 2 * den by doubling either, with
\* the power of two e taken out: the quotient is 2^e * num / den
RECURSIVE Normalised(_, _, _)
Normalised(num, den, e) ==
    IF num >= 2 * den THEN Normalised(num, 2 * den, e + 1)
    ELSE IF num < den THEN Normalised(2 * num, den, e - 1)
    ELSE [num |-> num, den |-> den, e |-> e]

\* the float x / y of two positive floats whose exact quotient is the
\* fraction num / den: num * 2^(Precision - 1) divided by den has Precision
\* bits once den <= num < 2 * den
FloatDivide(num, den) ==
    LET n == Normalised(num, den, 0)
        d == DivideDigits(ShiftLeft(DigitsOf(n.num), Precision - 1), n.den, 0)
    IN  RoundedFloat(d.quot, d.rem, n.den, n.e - (Precision - 1))

\* the float x * k of a positive float and a natural number 1 <= k < Base:
\* the exact product loses its last bits beyond Precision
FloatTimes(x, k) ==
    LET product == TimesDigits(x.m, k, 0)
        drop == BitsIn(product) - Precision
        d == DivideDigits(product, 2 ^ drop, 0)
    IN  RoundedFloat(d.quot, d.rem, 2 ^ drop, x.e + drop)

\* the order of the positive float x and the fraction a / b (b > 0): -1, 0
\* or 1 as x is below, at or above it
CompareFloat(x, a, b) ==
    IF a <= 0 THEN 1
    ELSE IF x.e < 0
         THEN CompareDigits(TimesDigits(x.m, b, 0), ShiftLeft(DigitsOf(a), 0 - x.e))
         ELSE CompareDigits(ShiftLeft(TimesDigits(x.m, b, 0), x.e), DigitsOf(a))

\* round(x, 2) of a positive float, in hundredths: the number of hundredths
\* nearest to the exact value of x, the even one when x is half-way; `near`
\* is the floor of the hundredths of the exact quotient or product x was
\* rounded from, which x is next to
Round2(x, near) ==
    CHOOSE k \in (near - 1)..(near + 2) :
        LET low == CompareFloat(x, 2 * k - 1, 200)
            high == CompareFloat(x, 2 * k + 1, 200)
        IN  /\ k >= 0
            /\ low = 1 \/ (low = 0 /\ k % 2 = 0)
            /\ high = 0 - 1 \/ (high = 0 /\ k % 2 = 0)

\* num / den is half-way between two integers
HalfWay(num, den) == (2 * num) % den = 0 /\ ((2 * num) \div den) % 2 = 1

\* round(x / y, 2) in hundredths, for floats x, y whose exact quotient is
\* num / den (den > 0): the quotient is rounded to a float and that one to
\* 2 decimals.  An exact quotient that is not half-way between two
\* hundredths is at least 1 / (2 * den) of a hundredth away from half-way,
\* which is more than the error of the float (at most 2^-53 of its value)
\* for every num and den an integer of the model can hold, so that the float
\* goes to the hundredth the exact quotient goes to; half-way, the side the
\* float lies on decides (1 / 40 gives 0.03, the float being above 0.025).
RoundQuotient(num, den) ==
    IF ~HalfWay(100 * num, den) THEN RoundHalfEven(100 * num, den)
    ELSE IF num > 0 THEN Round2(FloatDivide(num, den), (100 * num) \div den)
    ELSE 0 - Round2(FloatDivide(0 - num, den), (100 * (0 - num)) \div den)

\* round(x / y * 100, 2) in hundredths, for floats x, y whose exact quotient
\* is num / den (num >= 0, den > 0): the quotient is rounded to a float, its
\* product with 100 is rounded to a float, and that one to 2 decimals.  As
\* for RoundQuotient, the two float roundings matter only when the exact
\* percentage is half-way between two hundredths (23 / 160 gives 14.37, the
\* product being below 14.375).
RoundPercent(num, den) ==
    IF ~HalfWay(10000 * num, den) THEN RoundHalfEven(10000 * num, den)
    ELSE Round2(FloatTimes(FloatDivide(num, den), 100), (10000 * num) \div den)

RECURSIVE SumSeq(_)
SumSeq(s) == IF s = <<>> THEN 0 ELSE Head(s) + SumSeq(Tail(s))

RECURSIVE MaxSeq(_)
MaxSeq(s) ==
    IF Len(s) = 1 THEN s[1]
    ELSE LET m == MaxSeq(Tail(s)) IN IF Head(s) >= m THEN Head(s) ELSE m

\* completion_times after the loop over the schedule: the end_time of the
\* last entry of pid (IDLE entries are skipped)
HasCompletion(schedule, pid) ==
    pid # IDLE /\ \E k \in 1..Len(schedule) : schedule[k][1] = pid

\* a faulty CompletionTime: the end_time of the first entry of pid
CompletionTime_first_entry(schedule, pid) ==
    LET first == CHOOSE k \in 1..Len(schedule) :
                     /\ schedule[k][1] = pid
                     /\ \A j \in 1..(k - 1) : schedule[j][1] # pid
    IN  schedule[first][3]

CompletionTime(schedule, pid) ==
    LET last == CHOOSE k \in 1..Len(schedule) :
                    /\ schedule[k][1] = pid
                    /\ \A j \in (k + 1)..Len(schedule) : schedule[j][1] # pid
    IN  schedule[last][3]

\* a faulty calculate_metrics: the IDLE entries count as CPU time
calculate_metrics_idle_counted(procs, schedule) ==
    LET done == SelectSeq(procs, LAMBDA p : HasCompletion(schedule, p.pid))
        turnaround_times ==
            [k \in 1..Len(done) |->
                CompletionTime(schedule, done[k].pid) - done[k].arrival_time]
        waiting_times ==
            [k \in 1..Len(done) |-> turnaround_times[k] - done[k].burst_time]
        total_time ==
            IF schedule # <<>>
            THEN MaxSeq([k \in 1..Len(schedule) |-> schedule[k][3]]) ELSE 0
        cpu_time ==
            SumSeq([k \in 1..Len(schedule) |-> schedule[k][3] - schedule[k][2]])
    IN  [average_turnaround_time |->
            IF done # <<>>
            THEN RoundQuotient(SumSeq(turnaround_times), Unit * Len(done))
            ELSE 0,
         average_waiting_time |->
            IF done # <<>>
            THEN RoundQuotient(SumSeq(waiting_times), Unit * Len(done))
            ELSE 0,
         cpu_utilization |->
            IF total_time > 0
            THEN RoundPercent(cpu_time, total_time) ELSE 0,
         total_processes |-> Len(procs),
         total_time |-> RoundHalfEven(100 * total_time, Unit)]

\* a faulty calculate_metrics: the averages are taken over all the
\* processes of the list, completed or not
calculate_metrics_over_all(procs, schedule) ==
    LET done == SelectSeq(procs, LAMBDA p : HasCompletion(schedule, p.pid))
        turnaround_times ==
            [k \in 1..Len(done) |->
                CompletionTime(schedule, done[k].pid) - done[k].arrival_time]
        waiting_times ==
            [k \in 1..Len(done) |-> turnaround_times[k] - done[k].burst_time]
        total_time ==
            IF schedule # <<>>
            THEN MaxSeq([k \in 1..Len(schedule) |-> schedule[k][3]]) ELSE 0
        cpu_time ==
            SumSeq([k \in 1..Len(schedule) |->
                      IF schedule[k][1] # IDLE
                      THEN schedule[k][3] - schedule[k][2] ELSE 0])
    IN  [average_turnaround_time |->
            IF done # <<>>
            THEN RoundQuotient(SumSeq(turnaround_times), Unit * Len(procs))
            ELSE 0,
         average_waiting_time |->
            IF done # <<>>
            THEN RoundQuotient(SumSeq(waiting_times), Unit * Len(procs))
            ELSE 0,
         cpu_utilization |->
            IF total_time > 0
            THEN RoundPercent(cpu_time, total_time) ELSE 0,
         total_processes |-> Len(procs),
         total_time |-> RoundHalfEven(100 * total_time, Unit)]

\* calculate_metrics(processes, schedule): procs is the list of the Process
\* records.  Times are in ticks; the rounded averages and total_time are in
\* hundredths of a time unit, cpu_utilization in hundredths of a percent.
calculate_metrics(procs, schedule) ==
    LET done == SelectSeq(procs, LAMBDA p : HasCompletion(schedule, p.pid))
        turnaround_times ==
            [k \in 1..Len(done) |->
                CompletionTime(schedule, done[k].pid) - done[k].arrival_time]
        waiting_times ==
            [k \in 1..Len(done) |-> turnaround_times[k] - done[k].burst_time]
        total_time ==
            IF schedule # <<>>
            THEN MaxSeq([k \in 1..Len(schedule) |-> schedule[k][3]]) ELSE 0
        cpu_time ==
            SumSeq([k \in 1..Len(schedule) |->
                      IF schedule[k][1] # IDLE
                      THEN schedule[k][3] - schedule[k][2] ELSE 0])
    IN  [average_turnaround_time |->
            IF done # <<>>
            THEN RoundQuotient(SumSeq(turnaround_times), Unit * Len(done))
            ELSE 0,
         average_waiting_time |->
            IF done # <<>>
            THEN RoundQuotient(SumSeq(waiting_times), Unit * Len(done))
            ELSE 0,
         cpu_utilization |->
            IF total_time > 0
            THEN RoundPercent(cpu_time, total_time) ELSE 0,
         total_processes |-> Len(procs),
         total_time |-> RoundHalfEven(100 * total_time, Unit)]

\* ------------------------------------------------------------------ frames
\* The activation record of one call: the function called, its arguments,
\* its locals and where it stands.
\*   pc = "loop"     at the head of the main loop
\*   pc = "after"    the loop was left by break
\*   pc = "returned" the call returned `result`
\*   pc = "raised"   the call raised `error`
NoResult == SchedulingResult(<<>>, EmptyMetrics, <<>>)

NewFrame(alg, processes, time_quantum) ==
    [alg |-> alg, pc |-> "loop", processes |-> processes,
     time_quantum |-> time_quantum,
     sorted_processes |-> <<>>, k |-> 0,
     processes_copy |-> <<>>, schedule |-> <<>>, current_time |-> 0,
     ready_queue |-> <<>>, completed_processes |-> {}, i |-> 0,
     current_process |-> None, error |-> "", result |-> NoResult]

Returned(f, result) == [f EXCEPT !.pc = "returned", !.result = result]

Raised(f, error) == [f EXCEPT !.pc = "raised", !.error = error]

\* the records of the objects of a list
Records(h, s) == [k \in 1..Len(s) |-> h[s[k]]]

\* a faulty AddToSchedule: the extended entry starts where the slice starts
AddToSchedule_from_slice(schedule, pid, start_time, end_time) ==
    IF schedule = <<>> \/ Last(schedule)[1] # pid \/ Last(schedule)[3] # start_time
    THEN Append(schedule, <<pid, start_time, end_time>>)
    ELSE SetLast(schedule, <<pid, start_time, end_time>>)

\* a faulty AddToSchedule: every slice opens an entry of its own
AddToSchedule_always_append(schedule, pid, start_time, end_time) ==
    Append(schedule, <<pid, start_time, end_time>>)

\* schedule.append(...) or the extension of the last entry (the
\* "add to schedule" block shared by the preemptive algorithms and
\* round_robin)
AddToSchedule(schedule, pid, start_time, end_time) ==
    IF schedule = <<>> \/ Last(schedule)[1] # pid \/ Last(schedule)[3] # start_time
    THEN Append(schedule, <<pid, start_time, end_time>>)
    ELSE SetLast(schedule, <<pid, Last(schedule)[2], end_time>>)

\* metrics = calculate_metrics(processes, schedule); return SchedulingResult(...)
Finish(h, f, algorithm_name) ==
    Returned(f, SchedulingResult(f.schedule,
                                 calculate_metrics(Records(h, f.processes), f.schedule),
                                 algorithm_name))

\* ------------------------------------------------------------------- FCFS
\* a faulty fcfs_begin: no early return for the empty list
fcfs_begin_no_empty_check(h, processes) ==
    [heap |-> h,
     frame |-> [NewFrame("fcfs", processes, 0) EXCEPT
                  !.sorted_processes = SortedBy(h, processes, "arrival_pid")]]

fcfs_begin(h, processes) ==
    LET f == NewFrame("fcfs", processes, 0)
    IN  IF processes = <<>>
        THEN [heap |-> h, frame |-> Returned(f, SchedulingResult(<<>>, EmptyMetrics, <<"FCFS">>))]
        ELSE [heap |-> h,
              frame |-> [f EXCEPT !.sorted_processes = SortedBy(h, processes, "arrival_pid")]]

fcfs_more(f) == f.k < Len(f.sorted_processes)

\* a faulty fcfs_step: the time is not advanced to the arrival after the
\* IDLE entry
fcfs_step_no_wait(h, f) ==
    LET process == h[f.sorted_processes[f.k + 1]]
        idle == f.current_time < process.arrival_time
        schedule1 == IF idle
                     THEN Append(f.schedule, <<IDLE, f.current_time, process.arrival_time>>)
                     ELSE f.schedule
        start_time == f.current_time
        end_time == start_time + process.burst_time
    IN  [heap |-> h,
         frame |-> [f EXCEPT !.schedule = Append(schedule1, <<process.pid, start_time, end_time>>),
                             !.current_time = end_time,
                             !.k = @ + 1]]

\* one iteration of `for process in sorted_processes`
fcfs_step(h, f) ==
    LET process == h[f.sorted_processes[f.k + 1]]
        idle == f.current_time < process.arrival_time
        schedule1 == IF idle
                     THEN Append(f.schedule, <<IDLE, f.current_time, process.arrival_time>>)
                     ELSE f.schedule
        start_time == IF idle THEN process.arrival_time ELSE f.current_time
        end_time == start_time + process.burst_time
    IN  [heap |-> h,
         frame |-> [f EXCEPT !.schedule = Append(schedule1, <<process.pid, start_time, end_time>>),
                             !.current_time = end_time,
                             !.k = @ + 1]]

fcfs_end(h, f) == [heap |-> h, frame |-> Finish(h, f, NameFCFS)]

\* --------------------------------------------- the non-preemptive loops
\* `while len(completed_processes) < len(processes_copy)`
loop_more(f) == Cardinality(f.completed_processes) < Len(f.processes_copy)

\* a faulty non_preemptive_step: the process selected runs for one time unit
\* at most
non_preemptive_step_one_unit(h, f, kind) ==
    LET incomplete == SelectSeq(f.processes_copy,
                                LAMBDA o : h[o].pid \notin f.completed_processes)
        available_processes ==
            SelectSeq(incomplete, LAMBDA o : h[o].arrival_time <= f.current_time)
    IN  IF available_processes = <<>>
        THEN LET next_process == h[MinBy(h, incomplete, "arrival")]
             IN  [heap |-> h,
                  frame |-> [f EXCEPT
                    !.schedule = Append(@, <<IDLE, f.current_time, next_process.arrival_time>>),
                    !.current_time = next_process.arrival_time]]
        ELSE LET selected_process == h[MinBy(h, available_processes, kind)]
                 start_time == f.current_time
                 end_time == f.current_time + Min(Unit, selected_process.burst_time)
             IN  [heap |-> h,
                  frame |-> [f EXCEPT
                    !.schedule = Append(@, <<selected_process.pid, start_time, end_time>>),
                    !.current_time = end_time,
                    !.completed_processes = @ \cup {selected_process.pid}]]

\* One iteration of the loop of sjf_non_preemptive (kind = "burst_pid") and
\* of priority_non_preemptive (kind = "priority_pid"), which differ in the
\* selection key only.
non_preemptive_step(h, f, kind) ==
    LET incomplete == SelectSeq(f.processes_copy,
                                LAMBDA o : h[o].pid \notin f.completed_processes)
        available_processes ==
            SelectSeq(incomplete, LAMBDA o : h[o].arrival_time <= f.current_time)
    IN  IF available_processes = <<>>
        THEN LET next_process == h[MinBy(h, incomplete, "arrival")]
             IN  [heap |-> h,
                  frame |-> [f EXCEPT
                    !.schedule = Append(@, <<IDLE, f.current_time, next_process.arrival_time>>),
                    !.current_time = next_process.arrival_time]]
        ELSE LET selected_process == h[MinBy(h, available_processes, kind)]
                 start_time == f.current_time
                 end_time == f.current_time + selected_process.burst_time
             IN  [heap |-> h,
                  frame |-> [f EXCEPT
                    !.schedule = Append(@, <<selected_process.pid, start_time, end_time>>),
                    !.current_time = end_time,
                    !.completed_processes = @ \cup {selected_process.pid}]]

\* a faulty MissingPriority: only the first process is validated
MissingPriority_first_only(h, processes) == h[processes[1]].priority = None

\* the validation loop of the priority algorithms
MissingPriority(h, processes) ==
    \E k \in 1..Len(processes) : h[processes[k]].priority = None

\* ------------------------------------------------------ SJF non-preemptive
sjf_non_preemptive_begin(h, processes) ==
    LET f == NewFrame("sjf_non_preemptive", processes, 0)
        c == CopyProcesses(h, processes)
    IN  IF processes = <<>>
        THEN [heap |-> h,
              frame |-> Returned(f, SchedulingResult(<<>>, EmptyMetrics, <<"SJF Non-Preemptive">>))]
        ELSE [heap |-> c.heap, frame |-> [f EXCEPT !.processes_copy = c.ids]]

\* a faulty sjf_non_preemptive_step: the process selected is the first to
\* have arrived, whatever its burst_time
sjf_non_preemptive_step_by_arrival(h, f) == non_preemptive_step(h, f, "arrival_pid")

sjf_non_preemptive_step(h, f) == non_preemptive_step(h, f, "burst_pid")

sjf_non_preemptive_end(h, f) == [heap |-> h, frame |-> Finish(h, f, NameSJFNP)]

\* ------------------------------------------------- priority non-preemptive
priority_non_preemptive_begin(h, processes) ==
    LET f == NewFrame("priority_non_preemptive", processes, 0)
        c == CopyProcesses(h, processes)
    IN  IF processes = <<>>
        THEN [heap |-> h,
              frame |-> Returned(f, SchedulingResult(<<>>, EmptyMetrics, <<"Priority Non-Preemptive">>))]
        ELSE IF MissingPriority(h, processes)
        THEN [heap |-> h, frame |-> Raised(f, "ValueError")]
        ELSE [heap |-> c.heap, frame |-> [f EXCEPT !.processes_copy = c.ids]]

\* a faulty priority_non_preemptive_step: the process selected is the
\* shortest one, whatever its priority
priority_non_preemptive_step_by_burst(h, f) == non_preemptive_step(h, f, "burst_pid")

priority_non_preemptive_step(h, f) == non_preemptive_step(h, f, "priority_pid")

priority_non_preemptive_end(h, f) == [heap |-> h, frame |-> Finish(h, f, NamePrioNP)]

\* ------------------------------------------------- the preemptive loops
\* a faulty AdmitUpTo: a process is admitted one tick before it arrives
RECURSIVE AdmitUpTo_ahead(_, _, _, _)
AdmitUpTo_ahead(h, processes_copy, i, current_time) ==
    IF i < Len(processes_copy) /\ h[processes_copy[i + 1]].arrival_time <= current_time + 1
    THEN AdmitUpTo_ahead(h, processes_copy, i + 1, current_time)
    ELSE i

\* `while i < len(processes_copy) and processes_copy[i].arrival_time <= current_time`:
\* the value of i when the loop ends (i counts from 0, lists from 1)
RECURSIVE AdmitUpTo(_, _, _, _)
AdmitUpTo(h, processes_copy, i, current_time) ==
    IF i < Len(processes_copy) /\ h[processes_copy[i + 1]].arrival_time <= current_time
    THEN AdmitUpTo(h, processes_copy, i + 1, current_time)
    ELSE i

\* the heap after heappush of the tuples of processes_copy[i..j-1]
RECURSIVE PushArrived(_, _, _, _, _, _)
PushArrived(h, q, processes_copy, i, j, kind) ==
    IF i >= j THEN q
    ELSE LET o == processes_copy[i + 1]
         IN  PushArrived(h, heappush(q, <<KeyOf(kind, h[o])[1], h[o].pid, o>>),
                         processes_copy, i + 1, j, kind)

\* "If current process is different, switch context": the condition of the if
SwitchContext(h, current_process, next_process) ==
    \/ current_process = None
    \/ /\ next_process # None
       /\ current_process # None
       /\ h[next_process].pid # h[current_process].pid

\* One iteration of the loop of sjf_preemptive (kind = "remaining_pid") and
\* of priority_preemptive (kind = "priority_pid"), which differ in the heap
\* key only.
preemptive_step(h, f, kind) ==
    LET i1 == AdmitUpTo(h, f.processes_copy, f.i, f.current_time)
        q1 == PushArrived(h, f.ready_queue, f.processes_copy, f.i, i1, kind)
        \* next_process = None; if ready_queue: _, _, next_process = heappop(ready_queue)
        next_process == IF q1 # <<>> THEN heappop(q1).item[3] ELSE None
        q2 == IF q1 # <<>> THEN heappop(q1).heap ELSE q1
        switch == SwitchContext(h, f.current_process, next_process)
        q3 == IF switch /\ f.current_process # None /\ ~is_completed(h[f.current_process])
              THEN heappush(q2, <<KeyOf(kind, h[f.current_process])[1],
                                  h[f.current_process].pid, f.current_process>>)
              ELSE q2
        current_process == IF switch THEN next_process ELSE f.current_process
        f1 == [f EXCEPT !.i = i1, !.ready_queue = q3, !.current_process = current_process]
    IN  IF current_process = None
        THEN IF i1 < Len(f.processes_copy)
             THEN \* the IDLE entry is appended and the time advanced; control
                  \* then falls through to current_process.execute(1.0) with
                  \* current_process None: AttributeError
                  LET next_arrival == h[f.processes_copy[i1 + 1]].arrival_time
                  IN  [heap |-> h,
                       frame |-> Raised([f1 EXCEPT
                          !.schedule = Append(@, <<IDLE, f.current_time, next_arrival>>),
                          !.current_time = next_arrival], "AttributeError")]
             ELSE [heap |-> h, frame |-> [f1 EXCEPT !.pc = "after"]]
        ELSE LET x == execute(h, current_process, Unit)
                 start_time == f.current_time
                 end_time == f.current_time + x.execution_time
                 completed == is_completed(x.heap[current_process])
             IN  [heap |-> x.heap,
                  frame |-> [f1 EXCEPT
                    !.schedule = AddToSchedule(@, h[current_process].pid, start_time, end_time),
                    !.current_time = end_time,
                    !.completed_processes =
                        IF completed THEN @ \cup {h[current_process].pid} ELSE @,
                    !.current_process = IF completed THEN None ELSE current_process]]

\* ---------------------------------------------------------- SJF preemptive
sjf_preemptive_begin(h, processes) ==
    LET f == NewFrame("sjf_preemptive", processes, 0)
        c == CopyProcesses(h, processes)
    IN  IF processes = <<>>
        THEN [heap |-> h,
              frame |-> Returned(f, SchedulingResult(<<>>, EmptyMetrics, <<"SJF Preemptive">>))]
        ELSE [heap |-> c.heap,
              frame |-> [f EXCEPT !.processes_copy = SortedBy(c.heap, c.ids, "arrival_pid")]]

sjf_preemptive_step(h, f) == preemptive_step(h, f, "remaining_pid")

sjf_preemptive_end(h, f) == [heap |-> h, frame |-> Finish(h, f, NameSJFP)]

\* ----------------------------------------------------- priority preemptive
priority_preemptive_begin(h, processes) ==
    LET f == NewFrame("priority_preemptive", processes, 0)
        c == CopyProcesses(h, processes)
    IN  IF processes = <<>>
        THEN [heap |-> h,
              frame |-> Returned(f, SchedulingResult(<<>>, EmptyMetrics, <<"Priority Preemptive">>))]
        ELSE IF MissingPriority(h, processes)
        THEN [heap |-> h, frame |-> Raised(f, "ValueError")]
        ELSE [heap |-> c.heap,
              frame |-> [f EXCEPT !.processes_copy = SortedBy(c.heap, c.ids, "arrival_pid")]]

priority_preemptive_step(h, f) == preemptive_step(h, f, "priority_pid")

priority_preemptive_end(h, f) == [heap |-> h, frame |-> Finish(h, f, NamePrioP)]

\* ------------------------------------------------------------ Round Robin
\* a faulty round_robin_begin: the processes that arrive at time 0 are not
\* put on the ready queue before the loop
round_robin_begin_no_admission(h, processes, time_quantum) ==
    LET f == NewFrame("round_robin", processes, time_quantum)
        c == CopyProcesses(h, processes)
    IN  IF processes = <<>>
        THEN [heap |-> h,
              frame |-> Returned(f, SchedulingResult(<<>>, EmptyMetrics, <<"Round Robin">>))]
        ELSE IF time_quantum <= 0
        THEN [heap |-> h, frame |-> Raised(f, "ValueError")]
        ELSE [heap |-> c.heap,
              frame |-> [f EXCEPT !.processes_copy = SortedBy(c.heap, c.ids, "arrival_pid")]]

\* a faulty round_robin_begin: it sorts and runs the caller's own objects
\* instead of fresh copies of them
round_robin_begin_in_place(h, processes, time_quantum) ==
    LET f == NewFrame("round_robin", processes, time_quantum)
        processes_copy == SortedBy(h, processes, "arrival_pid")
        i == AdmitUpTo(h, processes_copy, 0, 0)
    IN  IF processes = <<>>
        THEN [heap |-> h,
              frame |-> Returned(f, SchedulingResult(<<>>, EmptyMetrics, <<"Round Robin">>))]
        ELSE IF time_quantum <= 0
        THEN [heap |-> h, frame |-> Raised(f, "ValueError")]
        ELSE [heap |-> h,
              frame |-> [f EXCEPT !.processes_copy = processes_copy,
                                  !.ready_queue = SubSeq(processes_copy, 1, i),
                                  !.i = i]]

round_robin_begin(h, processes, time_quantum) ==
    LET f == NewFrame("round_robin", processes, time_quantum)
        c == CopyProcesses(h, processes)
        processes_copy == SortedBy(c.heap, c.ids, "arrival_pid")
        \* "Add all processes that arrive at time 0"
        i == AdmitUpTo(c.heap, processes_copy, 0, 0)
    IN  IF processes = <<>>
        THEN [heap |-> h,
              frame |-> Returned(f, SchedulingResult(<<>>, EmptyMetrics, <<"Round Robin">>))]
        ELSE IF time_quantum <= 0
        THEN [heap |-> h, frame |-> Raised(f, "ValueError")]
        ELSE [heap |-> c.heap,
              frame |-> [f EXCEPT !.processes_copy = processes_copy,
                                  !.ready_queue = SubSeq(processes_copy, 1, i),
                                  !.i = i]]

\* a faulty round_robin_step: the process that ran is put back at the head
\* of the queue
round_robin_step_requeue_at_front(h, f) ==
    LET empty == f.ready_queue = <<>>
        waits == empty /\ f.i < Len(f.processes_copy)
        next_arrival == h[f.processes_copy[f.i + 1]].arrival_time
        schedule1 == IF waits
                     THEN Append(f.schedule, <<IDLE, f.current_time, next_arrival>>)
                     ELSE f.schedule
        time1 == IF waits THEN next_arrival ELSE f.current_time
        i1 == IF waits THEN AdmitUpTo(h, f.processes_copy, f.i, time1) ELSE f.i
        q1 == f.ready_queue \o SubSeq(f.processes_copy, f.i + 1, i1)
    IN  IF empty /\ ~waits
        THEN [heap |-> h, frame |-> [f EXCEPT !.pc = "after"]]
        ELSE LET current_process == Head(q1)
                 x == execute(h, current_process, f.time_quantum)
                 start_time == time1
                 end_time == time1 + x.execution_time
                 i2 == AdmitUpTo(h, f.processes_copy, i1, end_time)
                 q2 == Tail(q1) \o SubSeq(f.processes_copy, i1 + 1, i2)
                 completed == is_completed(x.heap[current_process])
             IN  [heap |-> x.heap,
                  frame |-> [f EXCEPT
                    !.schedule = AddToSchedule(schedule1, h[current_process].pid,
                                               start_time, end_time),
                    !.current_time = end_time,
                    !.i = i2,
                    !.current_process = current_process,
                    !.completed_processes =
                        IF completed THEN @ \cup {h[current_process].pid} ELSE @,
                    !.ready_queue =
                        IF completed THEN q2 ELSE <<current_process>> \o q2]]

\* a faulty round_robin_step: the process that ran is put back on the queue
\* before the processes that arrived during its slice
round_robin_step_requeue_first(h, f) ==
    LET empty == f.ready_queue = <<>>
        waits == empty /\ f.i < Len(f.processes_copy)
        next_arrival == h[f.processes_copy[f.i + 1]].arrival_time
        schedule1 == IF waits
                     THEN Append(f.schedule, <<IDLE, f.current_time, next_arrival>>)
                     ELSE f.schedule
        time1 == IF waits THEN next_arrival ELSE f.current_time
        i1 == IF waits THEN AdmitUpTo(h, f.processes_copy, f.i, time1) ELSE f.i
        q1 == f.ready_queue \o SubSeq(f.processes_copy, f.i + 1, i1)
    IN  IF empty /\ ~waits
        THEN [heap |-> h, frame |-> [f EXCEPT !.pc = "after"]]
        ELSE LET current_process == Head(q1)
                 x == execute(h, current_process, f.time_quantum)
                 start_time == time1
                 end_time == time1 + x.execution_time
                 i2 == AdmitUpTo(h, f.processes_copy, i1, end_time)
                 completed == is_completed(x.heap[current_process])
                 q2 == IF completed THEN Tail(q1) ELSE Append(Tail(q1), current_process)
             IN  [heap |-> x.heap,
                  frame |-> [f EXCEPT
                    !.schedule = AddToSchedule(schedule1, h[current_process].pid,
                                               start_time, end_time),
                    !.current_time = end_time,
                    !.i = i2,
                    !.current_process = current_process,
                    !.completed_processes =
                        IF completed THEN @ \cup {h[current_process].pid} ELSE @,
                    !.ready_queue = q2 \o SubSeq(f.processes_copy, i1 + 1, i2)]]

\* one iteration of the loop of round_robin
round_robin_step(h, f) ==
    LET empty == f.ready_queue = <<>>
        waits == empty /\ f.i < Len(f.processes_copy)
        next_arrival == h[f.processes_copy[f.i + 1]].arrival_time
        schedule1 == IF waits
                     THEN Append(f.schedule, <<IDLE, f.current_time, next_arrival>>)
                     ELSE f.schedule
        time1 == IF waits THEN next_arrival ELSE f.current_time
        i1 == IF waits THEN AdmitUpTo(h, f.processes_copy, f.i, time1) ELSE f.i
        q1 == f.ready_queue \o SubSeq(f.processes_copy, f.i + 1, i1)
    IN  IF empty /\ ~waits
        THEN [heap |-> h, frame |-> [f EXCEPT !.pc = "after"]]
        ELSE LET current_process == Head(q1)
                 x == execute(h, current_process, f.time_quantum)
                 start_time == time1
                 end_time == time1 + x.execution_time
                 i2 == AdmitUpTo(h, f.processes_copy, i1, end_time)
                 q2 == Tail(q1) \o SubSeq(f.processes_copy, i1 + 1, i2)
                 completed == is_completed(x.heap[current_process])
             IN  [heap |-> x.heap,
                  frame |-> [f EXCEPT
                    !.schedule = AddToSchedule(schedule1, h[current_process].pid,
                                               start_time, end_time),
                    !.current_time = end_time,
                    !.i = i2,
                    !.current_process = current_process,
                    !.completed_processes =
                        IF completed THEN @ \cup {h[current_process].pid} ELSE @,
                    !.ready_queue =
                        IF completed THEN q2 ELSE Append(q2, current_process)]]

round_robin_end(h, f) == [heap |-> h, frame |-> Finish(h, f, RoundRobinName(f.time_quantum))]

\* ------------------------------------------------------- whole calls
Algorithms == {"fcfs", "sjf_non_preemptive", "sjf_preemptive",
               "priority_non_preemptive", "priority_preemptive", "round_robin"}

\* the loop condition of the frame's algorithm
More(f) == IF f.alg = "fcfs" THEN fcfs_more(f) ELSE loop_more(f)

StepOf(h, f) ==
    CASE f.alg = "fcfs" -> fcfs_step(h, f)
      [] f.alg = "sjf_non_preemptive" -> sjf_non_preemptive_step(h, f)
      [] f.alg = "sjf_preemptive" -> sjf_preemptive_step(h, f)
      [] f.alg = "priority_non_preemptive" -> priority_non_preemptive_step(h, f)
      [] f.alg = "priority_preemptive" -> priority_preemptive_step(h, f)
      [] f.alg = "round_robin" -> round_robin_step(h, f)

EndOf(h, f) ==
    CASE f.alg = "fcfs" -> fcfs_end(h, f)
      [] f.alg = "sjf_non_preemptive" -> sjf_non_preemptive_end(h, f)
      [] f.alg = "sjf_preemptive" -> sjf_preemptive_end(h, f)
      [] f.alg = "priority_non_preemptive" -> priority_non_preemptive_end(h, f)
      [] f.alg = "priority_preemptive" -> priority_preemptive_end(h, f)
      [] f.alg = "round_robin" -> round_robin_end(h, f)

InLoop(f) == f.pc = "loop" /\ More(f)

AtEnd(f) == f.pc = "after" \/ (f.pc = "loop" /\ ~More(f))

Ended(f) == f.pc \in {"returned", "raised"}

\* a call run from r = [heap, frame] until it returns or raises
RECURSIVE RunFrom(_)
RunFrom(r) ==
    IF Ended(r.frame) THEN r
    ELSE IF InLoop(r.frame) THEN RunFrom(StepOf(r.heap, r.frame))
    ELSE RunFrom(EndOf(r.heap, r.frame))

\* The six functions: the heap and the frame (result or error) a call on
\* the list `processes` of objects of h ends with.
fcfs_scheduling(h, processes) == RunFrom(fcfs_begin(h, processes))

sjf_non_preemptive(h, processes) == RunFrom(sjf_non_preemptive_begin(h, processes))

sjf_preemptive(h, processes) == RunFrom(sjf_preemptive_begin(h, processes))

priority_non_preemptive(h, processes) == RunFrom(priority_non_preemptive_begin(h, processes))

priority_preemptive(h, processes) == RunFrom(priority_preemptive_begin(h, processes))

round_robin(h, processes, time_quantum) == RunFrom(round_robin_begin(h, processes, time_quantum))

\* ------------------------------------------------- floats of any value
\* Times that are not multiples of 1 / Unit (0.01, 3.4) are floats whose
\* sums and differences are rounded as well as their quotients.  A float of
\* either sign is the record [s, m, e] of value s * m * 2^e, the sign s
\* being 1 or -1 and m having Precision bits, or it is FloatZero (Python's
\* 0.0, -0.0 and the int 0, which no operation of the program tells apart).
\* Floats beyond the exponent range of a double are not modelled.
FloatZero == [s |-> 0, m |-> <<>>, e |-> 0]

\* s[:-1]
Front(s) == IF s = <<>> THEN <<>> ELSE SubSeq(s, 1, Len(s) - 1)

\* the digits of the sum of the numbers of the digits s and t and of carry
RECURSIVE AddDigits(_, _, _)
AddDigits(s, t, carry) ==
    IF s = <<>> /\ t = <<>> THEN DigitsOf(carry)
    ELSE LET v == (IF s = <<>> THEN 0 ELSE Last(s))
                  + (IF t = <<>> THEN 0 ELSE Last(t)) + carry
         IN  Append(AddDigits(Front(s), Front(t), v \div Base), v % Base)

\* the digits (as many as s has) of the number of the digits s minus that
\* of the digits t minus borrow, the difference not being negative
RECURSIVE SubtractDigits(_, _, _)
SubtractDigits(s, t, borrow) ==
    IF s = <<>> THEN <<>>
    ELSE LET v == Last(s) - (IF t = <<>> THEN 0 ELSE Last(t)) - borrow
         IN  IF v < 0
             THEN Append(SubtractDigits(Front(s), Front(t), 1), v + Base)
             ELSE Append(SubtractDigits(Front(s), Front(t), 0), v)

\* the number of the digits given, where an integer holds it
RECURSIVE NumberOf(_)
NumberOf(digits) ==
    IF digits = <<>> THEN 0 ELSE NumberOf(Front(digits)) * Base + Last(digits)

\* the number of the digits given divided by 2^n: the digits of the
\* quotient, and -1, 0 or 1 as the rest is below, at or above half
ShiftRight(digits, n) ==
    LET keep == Len(digits) - n \div DigitBits
        high == IF keep > 0 THEN SubSeq(digits, 1, keep) ELSE <<>>
        low == IF keep > 0 THEN SubSeq(digits, keep + 1, Len(digits)) ELSE digits
        d == DivideDigits(high, 2 ^ (n % DigitBits), 0)
    IN  [quot |-> Significant(d.quot),
         half |-> CompareDigits(TimesDigits(<<d.rem>> \o low, 2, 0), ShiftLeft(<<1>>, n))]

\* the float of sign s nearest to s * (the number of the digits given) *
\* 2^e, the number not being 0: the one of even significand when two are
\* as near
Rounded(s, digits, e) ==
    LET n == Significant(digits)
        drop == BitsIn(n) - Precision
    IN  IF drop <= 0 THEN [s |-> s, m |-> ShiftLeft(n, 0 - drop), e |-> e + drop]
        ELSE LET d == ShiftRight(n, drop)
                 up == d.half = 1 \/ (d.half = 0 /\ Last(d.quot) % 2 = 1)
                 m == Significant(IF up THEN AddOne(d.quot) ELSE d.quot)
             IN  IF BitsIn(m) > Precision
                 THEN [s |-> s, m |-> DivideDigits(m, 2, 0).quot, e |-> e + drop + 1]
                 ELSE [s |-> s, m |-> m, e |-> e + drop]

\* float(n) of a natural number

\* the float a decimal literal of value num / den denotes (0.01 is
\* Literal(1, 100)): the float nearest to it
Literal(num, den) ==
    IF num = 0 THEN FloatZero
    ELSE LET x == FloatDivide(num, den) IN [s |-> 1, m |-> x.m, e |-> x.e]

\* x + y: the exact sum rounded.  A float more than Precision + 2 binary
\* places below the other is less than a quarter of a unit in its last
\* place and leaves it as it is.
FloatPlus(x, y) ==
    IF x.s = 0 THEN y
    ELSE IF y.s = 0 THEN x
    ELSE LET big == IF x.e >= y.e THEN x ELSE y
             small == IF x.e >= y.e THEN y ELSE x
             gap == big.e - small.e
         IN  IF gap > Precision + 2 THEN big
             ELSE LET a == ShiftLeft(big.m, gap)
                      order == CompareDigits(a, small.m)
                  IN  IF big.s = small.s
                      THEN Rounded(big.s, AddDigits(a, small.m, 0), small.e)
                      ELSE IF order = 0 THEN FloatZero
                      ELSE IF order = 1
                      THEN Rounded(big.s, SubtractDigits(a, small.m, 0), small.e)
                      ELSE Rounded(small.s, SubtractDigits(small.m, a, 0), small.e)

\* x - y
FloatMinus(x, y) == FloatPlus(x, [y EXCEPT !.s = 0 - y.s])

\* the order of the floats x and y: -1, 0 or 1 as x < y, x == y or x > y
FloatCompare(x, y) ==
    IF x.s # y.s THEN (IF x.s < y.s THEN 0 - 1 ELSE 1)
    ELSE IF x.s = 0 THEN 0
    ELSE IF x.e # y.e THEN (IF x.e < y.e THEN 0 - x.s ELSE x.s)
    ELSE x.s * CompareDigits(x.m, y.m)

\* the quotient and the remainder (digits) of the number
\* rem * Base^Len + (the number of the digits given) divided by the number
\* of the digits den, whose first digit is Base / 2 at least; quot holds
\* the digits of the quotient found so far and rem < den.  The next digit q
\* is r \div den for r = rem * Base + the next digit given: the quotient
\* of the first digits of r by the first one of den is q or up to 2 more.
RECURSIVE LongDivide(_, _, _, _)
LongDivide(digits, den, quot, rem) ==
    IF digits = <<>> THEN [quot |-> quot, rem |-> rem]
    ELSE LET r == Significant(Append(rem, Head(digits)))
             top == IF Len(r) > Len(den) THEN r[1] * Base + r[2]
                    ELSE IF Len(r) = Len(den) THEN r[1] ELSE 0
             guess == Min(top \div den[1], Base - 1)
             q == CHOOSE d \in (guess - 2)..guess :
                      /\ d >= 0
                      /\ CompareDigits(TimesDigits(den, d, 0), r) <= 0
                      /\ CompareDigits(TimesDigits(den, d + 1, 0), r) = 1
         IN  LongDivide(Tail(digits), den, Append(quot, q),
                        Significant(SubtractDigits(r, TimesDigits(den, q, 0), 0)))

\* x / y for y # 0: the significand of x with Precision + 2 bits more is
\* divided by that of y, and the quotient, with one bit more that tells
\* whether there is a remainder, is rounded
FloatOver(x, y) ==
    IF x.s = 0 THEN FloatZero
    ELSE LET up == DigitBits - BitLength(Head(y.m))
             d == LongDivide(ShiftLeft(x.m, up + Precision + 2), ShiftLeft(y.m, up),
                             <<>>, <<>>)
             more == IF d.rem = <<>> THEN 0 ELSE 1
         IN  Rounded(x.s * y.s, TimesDigits(d.quot, 2, more),
                     x.e - y.e - (Precision + 2) - 1)

\* round(x, 2), in hundredths, of a float of less than 2^31 hundredths
RoundFloat(x) ==
    IF x.s = 0 THEN 0
    ELSE LET product == TimesDigits(x.m, 100, 0)
             near == NumberOf(IF x.e < 0 THEN ShiftRight(product, 0 - x.e).quot
                              ELSE ShiftLeft(product, x.e))
         IN  x.s * Round2(x, near)

\* The float loop of the interpreter's sum() over the floats s, from the
\* first: f_result is the running sum, each addition rounded, and c the sum
\* of what the additions lost (Neumaier's compensation), itself rounded:
\*     t = f_result + x
\*     c += (f_result - t) + x  if fabs(f_result) >= fabs(x)
\*          (x - t) + f_result  otherwise
\*     f_result = t
\* r is the pair before the item x and t the new running sum, each bound as
\* the element of a one-element set so that it is computed once.
RECURSIVE CompensatedSum(_)
CompensatedSum(s) ==
    IF Len(s) = 1 THEN [f_result |-> s[1], c |-> FloatZero]
    ELSE CHOOSE next \in UNION {
             {[f_result |-> t,
               c |-> LET x == Last(s)
                         larger == FloatCompare([r.f_result EXCEPT !.s = @ * @],
                                                [x EXCEPT !.s = @ * @]) >= 0
                     IN  FloatPlus(r.c,
                             FloatPlus(FloatMinus(IF larger THEN r.f_result ELSE x, t),
                                       IF larger THEN x ELSE r.f_result))] :
                 t \in {FloatPlus(r.f_result, Last(s))}} :
             r \in {CompensatedSum(Front(s))}} : TRUE

\* sum(s) of floats. The interpreter is not fixed by the repository and its
\* sum() is one of two: CPython up to 3.11 adds the floats one by one from
\* the first and returns the running sum; CPython from 3.12 on returns the
\* running sum plus the compensation when that is not zero. `compensated`
\* tells which interpreter runs the call.
SumFloat(s, compensated) ==
    IF s = <<>> THEN FloatZero
    ELSE CHOOSE total \in
             {IF compensated /\ r.c.s # 0 THEN FloatPlus(r.f_result, r.c) ELSE r.f_result :
                 r \in {CompensatedSum(s)}} : TRUE

\* max(s): the first of the greatest
RECURSIVE MaxFloat(_)
MaxFloat(s) ==
    IF Len(s) = 1 THEN s[1]
    ELSE LET m == MaxFloat(Front(s))
         IN  IF FloatCompare(Last(s), m) = 1 THEN Last(s) ELSE m

\* calculate_metrics(processes, schedule) on records and entries whose
\* times are floats of any value; the rounded values are in hundredths as
\* those of calculate_metrics; `compensated` is the interpreter's sum()
calculate_metrics_float(procs, schedule, compensated) ==
    LET done == SelectSeq(procs, LAMBDA p : HasCompletion(schedule, p.pid))
        turnaround_times ==
            [k \in 1..Len(done) |->
                FloatMinus(CompletionTime(schedule, done[k].pid), done[k].arrival_time)]
        waiting_times ==
            [k \in 1..Len(done) |-> FloatMinus(turnaround_times[k], done[k].burst_time)]
        total_time ==
            IF schedule # <<>>
            THEN MaxFloat([k \in 1..Len(schedule) |-> schedule[k][3]]) ELSE FloatZero
        busy == SelectSeq(schedule, LAMBDA entry : entry[1] # IDLE)
        cpu_time ==
            SumFloat([k \in 1..Len(busy) |-> FloatMinus(busy[k][3], busy[k][2])],
                     compensated)
        count == Rounded(1, DigitsOf(Len(done)), 0)
        busy_share == FloatOver(cpu_time, total_time)
        percent == FloatTimes(busy_share, 100)
    IN  [average_turnaround_time |->
            IF done # <<>>
            THEN RoundFloat(FloatOver(SumFloat(turnaround_times, compensated), count))
            ELSE 0,
         average_waiting_time |->
            IF done # <<>>
            THEN RoundFloat(FloatOver(SumFloat(waiting_times, compensated), count))
            ELSE 0,
         cpu_utilization |->
            IF total_time.s = 1 /\ busy_share.s # 0
            THEN RoundFloat([s |-> busy_share.s, m |-> percent.m, e |-> percent.e])
            ELSE 0,
         total_processes |-> Len(procs),
         total_time |-> RoundFloat(total_time)]

\* insertion of object o into the list s sorted by key, after equal keys;
\* the keys are 2-tuples (float, pid), compared as Python compares tuples
RECURSIVE InsertSortedFloat(_, _, _, _)
InsertSortedFloat(h, s, o, kind) ==
    IF s = <<>> THEN <<o>>
    ELSE LET k1 == KeyOf(kind, h[o])
             k2 == KeyOf(kind, h[Head(s)])
             order == FloatCompare(k1[1], k2[1])
         IN  IF order = 0 - 1 \/ (order = 0 /\ PidRank(k1[2]) < PidRank(k2[2]))
             THEN <<o>> \o s
             ELSE <<Head(s)>> \o InsertSortedFloat(h, Tail(s), o, kind)

\* sorted(s, key=...) where the keys hold floats of any value
RECURSIVE SortedByFloat(_, _, _)
SortedByFloat(h, s, kind) ==
    IF s = <<>> THEN <<>>
    ELSE InsertSortedFloat(h, SortedByFloat(h, Front(s), kind), Last(s), kind)

\* fcfs_scheduling on processes whose times are floats of any value.
\* One iteration of `for process in sorted_processes`:
fcfs_step_float(h, f) ==
    LET process == h[f.sorted_processes[f.k + 1]]
        idle == FloatCompare(f.current_time, process.arrival_time) = 0 - 1
        schedule1 == IF idle
                     THEN Append(f.schedule, <<IDLE, f.current_time, process.arrival_time>>)
                     ELSE f.schedule
        start_time == IF idle THEN process.arrival_time ELSE f.current_time
        end_time == FloatPlus(start_time, process.burst_time)
    IN  [heap |-> h,
         frame |-> [f EXCEPT !.schedule = Append(schedule1, <<process.pid, start_time, end_time>>),
                             !.current_time = end_time,
                             !.k = @ + 1]]

\* the loop run from r = [heap, frame] to its end, then
\* metrics = calculate_metrics(processes, schedule); return SchedulingResult(...)
RECURSIVE fcfs_run_float(_, _)
fcfs_run_float(r, compensated) ==
    IF fcfs_more(r.frame)
    THEN fcfs_run_float(fcfs_step_float(r.heap, r.frame), compensated)
    ELSE [heap |-> r.heap,
          frame |-> Returned(r.frame,
                        SchedulingResult(r.frame.schedule,
                            calculate_metrics_float(Records(r.heap, r.frame.processes),
                                                    r.frame.schedule, compensated),
                            NameFCFS))]

\* the heap and the frame a call on the list `processes` of objects of h
\* ends with under the interpreter whose sum() is `compensated`
fcfs_scheduling_float(h, processes, compensated) ==
    LET f == NewFrame("fcfs", processes, 0)
    IN  IF processes = <<>>
        THEN [heap |-> h, frame |-> Returned(f, SchedulingResult(<<>>, EmptyMetrics, <<"FCFS">>))]
        ELSE fcfs_run_float(
                 [heap |-> h,
                  frame |-> [f EXCEPT
                      !.sorted_processes = SortedByFloat(h, processes, "arrival_pid"),
                      !.current_time = FloatZero]],
                 compensated)

\* ---------------------------------------------------------- state machine
\* heap       the Process objects: the caller's, then the working copies of
\*            the call in progress (or of the last call)
\* processes  the caller's list (object ids), passed to every call
\* frame      the call in progress, or the last call once it has ended
\* peer       the call of a second, concurrent caller on the same list (no
\*            call where there is a single caller)
VARIABLES heap, processes, frame, peer

vars == <<heap, processes, frame, peer>>

Priorities == {None} \cup 0..MaxPriority

Quanta == (0 - 1)..MaxQuantum

\* the lists of n processes P1..Pn, each built by Process(pid, arrival_time,
\* burst_time, priority) with the priority given or left out
InputLists(n) ==
    {[k \in 1..n |-> Process(PidNames[k], a[k], b[k], p[k])] :
        a \in [1..n -> 0..MaxArrival], b \in [1..n -> 1..MaxBurst],
        p \in [1..n -> Priorities]}

\* no call has been made yet
NoCall(ps) == [NewFrame("none", ps, 0) EXCEPT !.pc = "idle"]

Init ==
    \E n \in 0..MaxProcs : \E s \in InputLists(n) :
        /\ heap = s
        /\ processes = [k \in 1..n |-> k]
        /\ frame = NoCall(processes)
        /\ peer = NoCall(processes)

\* The caller may call when no call is in progress; the frame and the
\* working copies of the previous call are gone by then.
CanCall == frame.pc = "idle" \/ Ended(frame)

CallerHeap == SubSeq(heap, 1, Len(processes))

Becomes(r) == heap' = r.heap /\ frame' = r.frame /\ UNCHANGED <<processes, peer>>

FcfsCall == CanCall /\ Becomes(fcfs_begin(CallerHeap, processes))

SjfNonPreemptiveCall == CanCall /\ Becomes(sjf_non_preemptive_begin(CallerHeap, processes))

SjfPreemptiveCall == CanCall /\ Becomes(sjf_preemptive_begin(CallerHeap, processes))

PriorityNonPreemptiveCall ==
    CanCall /\ Becomes(priority_non_preemptive_begin(CallerHeap, processes))

PriorityPreemptiveCall == CanCall /\ Becomes(priority_preemptive_begin(CallerHeap, processes))

RoundRobinCall ==
    CanCall /\ \E q \in Quanta : Becomes(round_robin_begin(CallerHeap, processes, q))

FcfsStep == frame.alg = "fcfs" /\ InLoop(frame) /\ Becomes(fcfs_step(heap, frame))

SjfNonPreemptiveStep ==
    frame.alg = "sjf_non_preemptive" /\ InLoop(frame)
    /\ Becomes(sjf_non_preemptive_step(heap, frame))

SjfPreemptiveStep ==
    frame.alg = "sjf_preemptive" /\ InLoop(frame) /\ Becomes(sjf_preemptive_step(heap, frame))

PriorityNonPreemptiveStep ==
    frame.alg = "priority_non_preemptive" /\ InLoop(frame)
    /\ Becomes(priority_non_preemptive_step(heap, frame))

PriorityPreemptiveStep ==
    frame.alg = "priority_preemptive" /\ InLoop(frame)
    /\ Becomes(priority_preemptive_step(heap, frame))

RoundRobinStep ==
    frame.alg = "round_robin" /\ InLoop(frame) /\ Becomes(round_robin_step(heap, frame))

\* metrics = calculate_metrics(processes, schedule); return SchedulingResult(...)
Return == frame.alg \in Algorithms /\ AtEnd(frame) /\ Becomes(EndOf(heap, frame))

Next ==
    \/ FcfsCall
    \/ SjfNonPreemptiveCall
    \/ SjfPreemptiveCall
    \/ PriorityNonPreemptiveCall
    \/ PriorityPreemptiveCall
    \/ RoundRobinCall
    \/ FcfsStep
    \/ SjfNonPreemptiveStep
    \/ SjfPreemptiveStep
    \/ PriorityNonPreemptiveStep
    \/ PriorityPreemptiveStep
    \/ RoundRobinStep
    \/ Return

Spec == Init /\ [][Next]_vars

\* -------------------------------------------------------- a single call
\* The caller makes one call and follows it to its end.
NextRun == ~Ended(frame) /\ Next

SpecRun == Init /\ [][NextRun]_vars

\* ------------------------------------------------ valid calls as a whole
\* The caller makes one call with valid arguments (a priority on every
\* process, a positive quantum) and gets its outcome.
ValidLists(n) ==
    {[k \in 1..n |-> Process(PidNames[k], a[k], b[k], p[k])] :
        a \in [1..n -> 0..MaxArrival], b \in [1..n -> 1..MaxBurst],
        p \in [1..n -> 0..MaxPriority]}

InitCalls ==
    \E n \in 0..MaxProcs : \E s \in ValidLists(n) :
        /\ heap = s
        /\ processes = [k \in 1..n |-> k]
        /\ frame = NoCall(processes)
        /\ peer = NoCall(processes)

FcfsScheduling == frame.pc = "idle" /\ Becomes(fcfs_scheduling(heap, processes))

SjfNonPreemptive == frame.pc = "idle" /\ Becomes(sjf_non_preemptive(heap, processes))

SjfPreemptive == frame.pc = "idle" /\ Becomes(sjf_preemptive(heap, processes))

PriorityNonPreemptive ==
    frame.pc = "idle" /\ Becomes(priority_non_preemptive(heap, processes))

PriorityPreemptive == frame.pc = "idle" /\ Becomes(priority_preemptive(heap, processes))

RoundRobin ==
    /\ frame.pc = "idle"
    /\ \E time_quantum \in 1..MaxQuantum :
          Becomes(round_robin(heap, processes, time_quantum))

NextCalls ==
    \/ FcfsScheduling
    \/ SjfNonPreemptive
    \/ SjfPreemptive
    \/ PriorityNonPreemptive
    \/ PriorityPreemptive
    \/ RoundRobin

SpecCalls == InitCalls /\ [][NextCalls]_vars

\* ------------------------------------------ calculate_metrics on its own
\* calculate_metrics is a public function: a caller may pass it any list of
\* processes and any schedule.  The lists are of up to MaxMetricsProcs
\* processes without priority; the schedules are of up to MaxEntries entries
\* (pid or IDLE, start, end) with 0 <= start < end <= MaxEnd, in any order,
\* for pids that are in the list or not.
MetricsLists(n) ==
    {[k \in 1..n |-> Process(PidNames[k], a[k], b[k], None)] :
        a \in [1..n -> 0..MaxArrival], b \in [1..n -> 1..MaxBurst]}

Entries ==
    {<<pid, interval[1], interval[2]>> :
        pid \in {IDLE} \cup {PidNames[k] : k \in 1..MaxMetricsProcs},
        interval \in {x \in (0..MaxEnd) \X (0..MaxEnd) : x[1] < x[2]}}

Schedules == UNION {[1..n -> Entries] : n \in 0..MaxEntries}

\* frame.schedule holds the schedule passed
InitMetrics ==
    \E n \in 0..MaxMetricsProcs : \E s \in MetricsLists(n) : \E schedule \in Schedules :
        /\ heap = s
        /\ processes = [k \in 1..n |-> k]
        /\ frame = [NoCall(processes) EXCEPT !.schedule = schedule]
        /\ peer = NoCall(processes)

\* metrics = calculate_metrics(processes, schedule)
CalculateMetrics ==
    /\ frame.pc = "idle"
    /\ frame' = [frame EXCEPT
          !.alg = "calculate_metrics",
          !.pc = "returned",
          !.result = [NoResult EXCEPT
              !.metrics = calculate_metrics(Records(heap, processes), frame.schedule)]]
    /\ UNCHANGED <<heap, processes, peer>>

NextMetrics == CalculateMetrics

SpecMetrics == InitMetrics /\ [][NextMetrics]_vars

\* ------------------------------------- a single call with valid arguments
\* The caller makes one call with valid arguments (a priority on every
\* process, a positive quantum) and follows it step by step to its end.
NextValidRun == NextRun /\ (frame'.alg = "round_robin" => frame'.time_quantum > 0)

SpecValidRun == InitCalls /\ [][NextValidRun]_vars

\* ------------------------------------------ valid calls on lists in any order
\* As SpecCalls, with the caller's list holding the processes P1..Pn in any
\* order.
InitOrders ==
    \E n \in 0..MaxProcs : \E s \in ValidLists(n) :
        \E order \in {t \in [1..n -> 1..n] : Range(t) = 1..n} :
            /\ heap = s
            /\ processes = order
            /\ frame = NoCall(processes)
            /\ peer = NoCall(processes)

SpecOrders == InitOrders /\ [][NextCalls]_vars

\* ------------------------------------- valid calls after a long idle start
\* As SpecCalls, the caller's list being one of SpecCalls or of a single
\* process that arrives up to MaxLateStart and runs up to MaxLongRun: the
\* schedules are long enough for percentages half-way between two
\* hundredths that are not floats.
LateLists ==
    {<<Process(PidNames[1], a, b, p)>> :
        a \in 0..MaxLateStart, b \in 1..MaxLongRun, p \in 0..MaxPriority}

InitLate ==
    \/ InitCalls
    \/ \E s \in LateLists :
          /\ heap = s
          /\ processes = <<1>>
          /\ frame = NoCall(processes)
          /\ peer = NoCall(processes)

SpecLate == InitLate /\ [][NextCalls]_vars

\* ------------------------------------- round_robin under several quanta
\* The caller makes one call of round_robin with a positive quantum on a
\* list of processes without priority that arrive up to MaxLateArrival and
\* run up to MaxLongBurst.
QuantaLists(n) ==
    {[k \in 1..n |-> Process(PidNames[k], a[k], b[k], None)] :
        a \in [1..n -> 0..MaxLateArrival], b \in [1..n -> 1..MaxLongBurst]}

InitQuanta ==
    \E n \in 0..MaxProcs : \E s \in QuantaLists(n) :
        /\ heap = s
        /\ processes = [k \in 1..n |-> k]
        /\ frame = NoCall(processes)
        /\ peer = NoCall(processes)

RoundRobinQuantum ==
    /\ frame.pc = "idle"
    /\ \E time_quantum \in 1..MaxLongQuantum :
          Becomes(round_robin(heap, processes, time_quantum))

NextQuanta == RoundRobinQuantum

SpecQuanta == InitQuanta /\ [][NextQuanta]_vars

\* ------------------------------------------------- two concurrent callers
\* Two callers each make one call with valid arguments on the same list
\* and the steps of the two calls interleave in any order.  Both calls
\* allocate their working copies in the one heap.
BeginOf(alg, h, ps, time_quantum) ==
    CASE alg = "fcfs" -> fcfs_begin(h, ps)
      [] alg = "sjf_non_preemptive" -> sjf_non_preemptive_begin(h, ps)
      [] alg = "sjf_preemptive" -> sjf_preemptive_begin(h, ps)
      [] alg = "priority_non_preemptive" -> priority_non_preemptive_begin(h, ps)
      [] alg = "priority_preemptive" -> priority_preemptive_begin(h, ps)
      [] alg = "round_robin" -> round_robin_begin(h, ps, time_quantum)

\* the quanta a call of alg may be given (only round_robin takes one)
QuantaOf(alg) == IF alg = "round_robin" THEN 1..MaxQuantum ELSE {0}

\* the calls a caller may make: the algorithm and the quantum
Calls == UNION {{<<alg, time_quantum>> : time_quantum \in QuantaOf(alg)} : alg \in Algorithms}

\* what the caller whose frame is f may do next: make its call, or let the
\* call make its next iteration or return
Moves(f) ==
    IF f.pc = "idle" THEN {BeginOf(c[1], heap, processes, c[2]) : c \in Calls}
    ELSE IF InLoop(f) THEN {StepOf(heap, f)}
    ELSE IF AtEnd(f) THEN {EndOf(heap, f)}
    ELSE {}

FirstCaller ==
    \E r \in Moves(frame) :
        heap' = r.heap /\ frame' = r.frame /\ UNCHANGED <<processes, peer>>

SecondCaller ==
    \E r \in Moves(peer) :
        heap' = r.heap /\ peer' = r.frame /\ UNCHANGED <<processes, frame>>

NextInterleaved == FirstCaller \/ SecondCaller

SpecInterleaved == InitCalls /\ [][NextInterleaved]_vars

\* ------------------------------------------- round_robin turn by turn
\* The caller makes one call of round_robin with a positive quantum on a
\* list of up to MaxRobinProcs processes without priority and follows it
\* turn by turn to its end.
RobinLists(n) ==
    {[k \in 1..n |-> Process(PidNames[k], a[k], b[k], None)] :
        a \in [1..n -> 0..MaxArrival], b \in [1..n -> 1..MaxBurst]}

InitRobin ==
    \E n \in 0..MaxRobinProcs : \E s \in RobinLists(n) :
        /\ heap = s
        /\ processes = [k \in 1..n |-> k]
        /\ frame = NoCall(processes)
        /\ peer = NoCall(processes)

RoundRobinValidCall ==
    /\ frame.pc = "idle"
    /\ \E time_quantum \in 1..MaxQuantum :
          Becomes(round_robin_begin(heap, processes, time_quantum))

NextRobin ==
    \/ RoundRobinValidCall
    \/ RoundRobinStep
    \/ Return

SpecRobin == InitRobin /\ [][NextRobin]_vars

\* --------------------------------- calls of the algorithms without priority
\* The caller makes one call of an algorithm that takes no priority, on a
\* list whose processes have a priority or none, and gets its outcome.
NextPlain ==
    \/ FcfsScheduling
    \/ SjfNonPreemptive
    \/ SjfPreemptive
    \/ RoundRobin

SpecPlain == Init /\ [][NextPlain]_vars

\* --------------------------------------- fcfs_scheduling on decimal times
\* The caller makes one call of fcfs_scheduling on a list of up to
\* Len(PidNames) processes without priority whose times are written with 2
\* decimals: they arrive at 0.00 to MaxDecimalArrival hundredths and run
\* 0.01 to MaxDecimalBurst hundredths.
InitDecimal ==
    \E n \in 0..Len(PidNames) :
        \E a \in [1..n -> 0..MaxDecimalArrival], b \in [1..n -> 1..MaxDecimalBurst] :
            /\ heap = [k \in 1..n |->
                          Process(PidNames[k], Literal(a[k], 100), Literal(b[k], 100), None)]
            /\ processes = [k \in 1..n |-> k]
            /\ frame = NoCall(processes)
            /\ peer = NoCall(processes)

FcfsDecimal ==
    /\ frame.pc = "idle"
    /\ \E compensated \in BOOLEAN :
           Becomes(fcfs_scheduling_float(heap, processes, compensated))

SpecDecimal == InitDecimal /\ [][FcfsDecimal]_vars

\* ----------------------------------------------------------- properties
PriorityAlgorithms == {"priority_non_preemptive", "priority_preemptive"}

PreemptiveAlgorithms == {"sjf_preemptive", "priority_preemptive"}

\* a call has been made (the frame is that of a call, in progress or ended)
Called == frame.alg \in Algorithms

\* the arguments of the call meet the documented preconditions: a priority
\* on every process for the priority algorithms, a positive quantum for
\* round_robin
ValidArguments ==
    /\ frame.alg \in PriorityAlgorithms =>
          \A k \in 1..Len(processes) : heap[processes[k]].priority # None
    /\ frame.alg = "round_robin" => frame.time_quantum > 0

\* the sum of the durations of the entries of pid in a schedule
Durations(schedule, pid) ==
    SumSeq([k \in 1..Len(schedule) |->
              IF schedule[k][1] = pid THEN schedule[k][3] - schedule[k][2] ELSE 0])

Appears(schedule, pid) == \E k \in 1..Len(schedule) : schedule[k][1] = pid

\* the working copies that have arrived and are incomplete at the start of
\* the iteration the frame is about to make
ArrivedIncomplete ==
    {o \in Range(frame.processes_copy) :
        heap[o].arrival_time <= frame.current_time /\ heap[o].remaining_time > 0}

\* the objects an iteration leading to heap h2 executes
Executed(h2) == {o \in DOMAIN heap : h2[o].remaining_time < heap[o].remaining_time}

\* C1: for every algorithm and every non-empty input (unique pids, positive
\* bursts, valid arguments) the call returns a schedule in which every input
\* process appears and the durations of its entries sum to its burst_time.
C1_Completeness ==
    (Called /\ processes # <<>> /\ ValidArguments /\ Ended(frame)) =>
        /\ frame.pc = "returned"
        /\ \A k \in 1..Len(processes) :
              /\ Appears(frame.result.schedule, heap[processes[k]].pid)
              /\ Durations(frame.result.schedule, heap[processes[k]].pid)
                    = heap[processes[k]].burst_time

\* C2: a returned schedule starts at time 0, its entries are in ascending
\* start_time order, each of positive length, each ending where the next one
\* starts, and the last one ends at total_time.
C2_MonotonicTimeline ==
    (frame.pc = "returned" /\ frame.result.schedule # <<>>) =>
        LET s == frame.result.schedule
        IN  /\ s[1][2] = 0
            /\ \A k \in 1..Len(s) : s[k][2] < s[k][3]
            /\ \A k \in 1..(Len(s) - 1) : s[k][2] < s[k + 1][2] /\ s[k][3] = s[k + 1][2]
            /\ Unit * frame.result.metrics.total_time = 100 * Last(s)[3]

\* a returned round-robin schedule of at least three entries, one of them IDLE
C2_Witness ==
    /\ frame.pc = "returned"
    /\ frame.alg = "round_robin"
    /\ Len(frame.result.schedule) >= 3
    /\ Appears(frame.result.schedule, IDLE)

\* C3: in every step of sjf_preemptive that starts with an arrived incomplete
\* process, the process executed has the least (remaining_time, pid) among
\* all arrived incomplete processes, the one that ran in the previous step
\* included.
C3_ShortestRemainingRuns ==
    (frame.alg = "sjf_preemptive" /\ InLoop(frame) /\ ArrivedIncomplete # {}) =>
        LET r == sjf_preemptive_step(heap, frame)
        IN  /\ Executed(r.heap) # {}
            /\ \A o \in Executed(r.heap) : \A p \in ArrivedIncomplete :
                  ~KeyLess(KeyOf("remaining_pid", heap[p]), KeyOf("remaining_pid", heap[o]))

\* C4: in every step of priority_preemptive that starts with an arrived
\* incomplete process, the process executed has the least (priority, pid)
\* among all arrived incomplete processes: none of them has a strictly
\* smaller priority value.
C4_HighestPriorityRuns ==
    (frame.alg = "priority_preemptive" /\ InLoop(frame) /\ ArrivedIncomplete # {}) =>
        LET r == priority_preemptive_step(heap, frame)
        IN  /\ Executed(r.heap) # {}
            /\ \A o \in Executed(r.heap) : \A p \in ArrivedIncomplete :
                  /\ ~KeyLess(KeyOf("priority_pid", heap[p]), KeyOf("priority_pid", heap[o]))
                  /\ heap[p].priority >= heap[o].priority

\* C5: when a step of sjf_preemptive or priority_preemptive starts with no
\* arrived incomplete process while some process has not arrived, the step
\* appends the entry (IDLE, current time, next arrival), advances the time to
\* that arrival and the scheduling continues.
C5_IdleToNextArrival ==
    (frame.alg \in PreemptiveAlgorithms /\ InLoop(frame) /\ ArrivedIncomplete = {}) =>
        LET r == StepOf(heap, frame)
            next_arrival == heap[frame.processes_copy[frame.i + 1]].arrival_time
        IN  /\ r.frame.pc = "loop"
            /\ r.frame.schedule = Append(frame.schedule, <<IDLE, frame.current_time, next_arrival>>)
            /\ r.frame.current_time = next_arrival

\* C6: a call with valid arguments never fails part-way through the
\* simulation, and when it has returned every process has completed.
C6_Termination ==
    (Called /\ ValidArguments) =>
        /\ frame.pc # "raised"
        /\ frame.pc = "returned" =>
              \A k \in 1..Len(processes) :
                  Durations(frame.result.schedule, heap[processes[k]].pid)
                      >= heap[processes[k]].burst_time

\* C7: round_robin called with time_quantum <= 0 raises ValueError before any
\* scheduling, whatever the size of the list, the empty list included.
C7_InvalidQuantumRaises ==
    (frame.alg = "round_robin" /\ frame.time_quantum <= 0) =>
        /\ frame.pc = "raised"
        /\ frame.error = "ValueError"
        /\ frame.schedule = <<>>

\* C8: a priority algorithm called with a non-empty list in which some process
\* has no priority raises ValueError before any scheduling: no working copy
\* exists, no schedule entry is produced and nothing has executed.
C8_MissingPriorityRaises ==
    (/\ frame.alg \in PriorityAlgorithms
     /\ processes # <<>>
     /\ \E k \in 1..Len(processes) : heap[processes[k]].priority = None) =>
        /\ frame.pc = "raised"
        /\ frame.error = "ValueError"
        /\ frame.schedule = <<>>
        /\ frame.processes_copy = <<>>
        /\ frame.completed_processes = {}
        /\ \A o \in DOMAIN heap : heap[o].remaining_time = heap[o].burst_time

\* priority_preemptive has raised on a list whose first process has a
\* priority and arrives at 0 and whose second process has none
C8_Witness ==
    /\ frame.alg = "priority_preemptive"
    /\ frame.pc = "raised"
    /\ Len(processes) = 2
    /\ heap[processes[1]].priority # None
    /\ heap[processes[1]].arrival_time = 0
    /\ heap[processes[2]].priority = None
    /\ heap[processes[2]].arrival_time > 0

\* C9: no step of any call (the call, an iteration, the return or the raise
\* of an error) changes the caller's list or any of the caller's Process
\* objects, so every call is made on the original input.
C9_InputNeverMutated ==
    [][/\ processes' = processes
       /\ \A k \in 1..Len(processes) : heap'[processes[k]] = heap[processes[k]]]_vars

\* a call has ended whose working copy of an input process has run to
\* completion (remaining_time 0) while the input process still has its
\* remaining_time
C9_Witness ==
    /\ Ended(frame)
    /\ \E j \in 1..Len(frame.processes_copy) : \E k \in 1..Len(processes) :
          /\ heap[frame.processes_copy[j]].pid = heap[processes[k]].pid
          /\ heap[frame.processes_copy[j]].remaining_time = 0
          /\ heap[processes[k]].remaining_time = heap[processes[k]].burst_time
          /\ heap[processes[k]].burst_time > Unit

\* C10: every algorithm called with an empty list returns a result with an
\* empty schedule and an empty metrics mapping.
C10_EmptyInput ==
    (Called /\ processes = <<>>) =>
        /\ frame.pc = "returned"
        /\ frame.result.schedule = <<>>
        /\ DOMAIN frame.result.metrics = {}

\* sjf_preemptive has returned for the empty list
C10_Witness ==
    /\ processes = <<>>
    /\ frame.alg = "sjf_preemptive"
    /\ frame.pc = "returned"

\* the ended call of algorithm alg on the list processes of heap h
CallOf(alg, h, ps, q) ==
    CASE alg = "fcfs" -> fcfs_scheduling(h, ps)
      [] alg = "sjf_non_preemptive" -> sjf_non_preemptive(h, ps)
      [] alg = "sjf_preemptive" -> sjf_preemptive(h, ps)
      [] alg = "priority_non_preemptive" -> priority_non_preemptive(h, ps)
      [] alg = "priority_preemptive" -> priority_preemptive(h, ps)
      [] alg = "round_robin" -> round_robin(h, ps, q)

\* the algorithm name a call of alg returns for a list of one process
NonEmptyName(alg, q) ==
    CallOf(alg, <<Process("P1", 0, Unit, 0)>>, <<1>>, q).frame.result.algorithm_name

\* C11: the algorithm name an algorithm returns for the empty list is the
\* name the same algorithm (with the same valid quantum for round_robin)
\* returns for a non-empty list.
C11_EmptyNameUnchanged ==
    (/\ Called
     /\ processes = <<>>
     /\ frame.pc = "returned"
     /\ frame.alg = "round_robin" => frame.time_quantum > 0) =>
        frame.result.algorithm_name = NonEmptyName(frame.alg, frame.time_quantum)

\* what the caller sees of an ended call: how it ended, the error raised,
\* the result returned
Outcome(f) == <<f.pc, f.error, f.result>>

\* C12: a call that has ended has the outcome (schedule, metrics, algorithm
\* name, or error) that another call of the same algorithm with the same
\* quantum has when it is made now on the caller's list: nothing of an
\* earlier call survives to change a later one.
C12_Determinism ==
    (Called /\ Ended(frame)) =>
        Outcome(frame)
            = Outcome(CallOf(frame.alg, CallerHeap, processes, frame.time_quantum).frame)

\* sjf_preemptive has returned a schedule of at least three entries and has
\* left working copies that ran to completion
C12_Witness ==
    /\ frame.alg = "sjf_preemptive"
    /\ frame.pc = "returned"
    /\ Len(frame.result.schedule) >= 3
    /\ Len(heap) > Len(processes)
    /\ \A o \in (Len(processes) + 1)..Len(heap) : heap[o].remaining_time = 0

\* the lists that hold the elements of the list s in another order
Orderings(s) ==
    {t \in [1..Len(s) -> Range(s)] : Range(t) = Range(s) /\ t # s}

\* C13: a call of fcfs_scheduling on decimal times that has ended has the
\* outcome (schedule and metrics) that fcfs_scheduling has, under an
\* interpreter that returns this outcome for the caller's list, on every
\* other permutation of the list.
C13_OrderInsensitive ==
    (frame.alg = "fcfs" /\ Ended(frame)) =>
        \A compensated \in BOOLEAN :
            Outcome(fcfs_scheduling_float(CallerHeap, processes, compensated).frame)
                    = Outcome(frame)
                => \A ps \in Orderings(processes) :
                       Outcome(fcfs_scheduling_float(CallerHeap, ps, compensated).frame)
                           = Outcome(frame)

\* the caller's process of the given pid
InputProcess(pid) == heap[CHOOSE o \in Range(processes) : heap[o].pid = pid]

NotIdle(entry) == entry[1] # IDLE

\* the end of the last entry of a process before entry k of a schedule, 0
\* when there is none
PreviousEnd(schedule, k) ==
    LET before == {j \in 1..(k - 1) : NotIdle(schedule[j])}
    IN  IF before = {} THEN 0
        ELSE schedule[CHOOSE j \in before : \A i \in before : i <= j][3]

\* the schedule fcfs_scheduling returns for P1(0, 3), P2(1, 1), P3(2, 2)
FcfsExample ==
    fcfs_scheduling(<<Process("P1", 0, 3 * Unit, None),
                      Process("P2", 1 * Unit, 1 * Unit, None),
                      Process("P3", 2 * Unit, 2 * Unit, None)>>,
                    <<1, 2, 3>>).frame.result.schedule

\* C14: the schedule fcfs_scheduling returns runs every process in exactly
\* one entry, in ascending (arrival_time, pid) order; the entry of a process
\* is [start, start + burst_time) with start the later of its arrival and
\* the end of the process before it, and it is preceded by an IDLE entry
\* (from that end to the arrival) exactly when that end is before the
\* arrival.  P1(0, 3), P2(1, 1), P3(2, 2) gives (P1,0,3), (P2,3,4), (P3,4,6).
C14_FcfsOrder ==
    (frame.alg = "fcfs" /\ frame.pc = "returned" /\ processes # <<>>) =>
        LET s == frame.result.schedule
            run == SelectSeq(s, NotIdle)
            Key(entry) == <<InputProcess(entry[1]).arrival_time, entry[1]>>
        IN  /\ Len(run) = Len(processes)
            /\ \A k \in 1..Len(processes) : Appears(run, heap[processes[k]].pid)
            /\ \A j \in 1..(Len(run) - 1) : KeyLess(Key(run[j]), Key(run[j + 1]))
            /\ \A k \in 1..Len(s) :
                  IF NotIdle(s[k])
                  THEN LET p == InputProcess(s[k][1])
                           previous == PreviousEnd(s, k)
                       IN  /\ s[k][2] = IF previous < p.arrival_time
                                        THEN p.arrival_time ELSE previous
                           /\ s[k][3] = s[k][2] + p.burst_time
                           /\ (k > 1 /\ ~NotIdle(s[k - 1])) <=> previous < p.arrival_time
                  ELSE /\ k < Len(s)
                       /\ NotIdle(s[k + 1])
                       /\ s[k] = <<IDLE, PreviousEnd(s, k),
                                   InputProcess(s[k + 1][1]).arrival_time>>
            /\ FcfsExample = <<<<"P1", 0, 3 * Unit>>, <<"P2", 3 * Unit, 4 * Unit>>,
                               <<"P3", 4 * Unit, 6 * Unit>>>>

\* fcfs_scheduling has returned for a list whose second process arrives
\* first and whose first process then waits for it to finish
C14_Witness ==
    /\ frame.alg = "fcfs"
    /\ frame.pc = "returned"
    /\ Len(processes) = 2
    /\ heap[processes[2]].arrival_time < heap[processes[1]].arrival_time
    /\ Len(frame.result.schedule) = 2
    /\ frame.result.schedule[1][1] = heap[processes[2]].pid
    /\ frame.result.schedule[2][2] > heap[processes[1]].arrival_time

\* the caller's processes that have no entry in the schedule of the frame
\* yet, and those of them that have arrived by the current time
Pending == {o \in Range(processes) : ~Appears(frame.schedule, heap[o].pid)}

ArrivedPending == {o \in Pending : heap[o].arrival_time <= frame.current_time}

\* An iteration that ends in r is a decision of a non-preemptive algorithm
\* that selects by the key of the given kind: with an arrived pending
\* process it appends one entry, the whole burst of the arrived pending
\* process of least key, starting at the current time; with none it appends
\* the IDLE entry from the current time to the earliest arrival of a pending
\* process.  Either way the time moves to the end of the entry.
NonPreemptiveDecision(r, kind) ==
    LET new == Last(r.frame.schedule)
    IN  /\ Len(r.frame.schedule) = Len(frame.schedule) + 1
        /\ r.frame.current_time = new[3]
        /\ IF ArrivedPending # {}
           THEN \E o \in ArrivedPending :
                   /\ \A p \in ArrivedPending \ {o} :
                         KeyLess(KeyOf(kind, heap[o]), KeyOf(kind, heap[p]))
                   /\ new = <<heap[o].pid, frame.current_time,
                              frame.current_time + heap[o].burst_time>>
           ELSE /\ \E o \in Pending : new[3] = heap[o].arrival_time
                /\ \A o \in Pending : new[3] <= heap[o].arrival_time
                /\ new = <<IDLE, frame.current_time, new[3]>>

\* C15: every iteration of sjf_non_preemptive starts the arrived incomplete
\* process of least (burst_time, pid) when there is one, and otherwise
\* idles to the earliest arrival among the incomplete processes.
C15_SjfNonPreemptiveDecision ==
    (frame.alg = "sjf_non_preemptive" /\ InLoop(frame)) =>
        NonPreemptiveDecision(sjf_non_preemptive_step(heap, frame), "burst_pid")

\* sjf_non_preemptive has started, of two processes that arrive at 0, the
\* second of the list because it is the shorter
C15_Witness ==
    /\ frame.alg = "sjf_non_preemptive"
    /\ Len(processes) = 2
    /\ heap[processes[1]].arrival_time = 0
    /\ heap[processes[2]].arrival_time = 0
    /\ heap[processes[2]].burst_time < heap[processes[1]].burst_time
    /\ Len(frame.schedule) = 1
    /\ frame.schedule[1] = <<heap[processes[2]].pid, 0, heap[processes[2]].burst_time>>

\* C16: every iteration of priority_non_preemptive starts the arrived
\* incomplete process of least (priority, pid) when there is one, and
\* otherwise idles to the earliest arrival among the incomplete processes;
\* the process started runs its whole burst, so a process of higher
\* priority that arrives meanwhile starts only after it has finished.
C16_PriorityNonPreemptiveDecision ==
    /\ (frame.alg = "priority_non_preemptive" /\ InLoop(frame)) =>
          NonPreemptiveDecision(priority_non_preemptive_step(heap, frame), "priority_pid")
    /\ (frame.alg = "priority_non_preemptive" /\ frame.pc = "returned") =>
          \A j, k \in 1..Len(frame.result.schedule) :
              LET a == frame.result.schedule[j]
                  b == frame.result.schedule[k]
              IN  (/\ NotIdle(a) /\ NotIdle(b)
                   /\ InputProcess(b[1]).arrival_time > a[2]
                   /\ InputProcess(b[1]).arrival_time < a[3]) =>
                      /\ a[3] - a[2] = InputProcess(a[1]).burst_time
                      /\ b[2] >= a[3]

\* priority_non_preemptive has returned for two processes: the first arrives
\* at 0 and runs its whole burst although the second, of higher priority,
\* arrives while it runs
C16_Witness ==
    /\ frame.alg = "priority_non_preemptive"
    /\ frame.pc = "returned"
    /\ Len(processes) = 2
    /\ heap[processes[1]].arrival_time = 0
    /\ heap[processes[2]].arrival_time > 0
    /\ heap[processes[2]].arrival_time < heap[processes[1]].burst_time
    /\ heap[processes[2]].priority < heap[processes[1]].priority
    /\ frame.result.schedule[1] = <<heap[processes[1]].pid, 0, heap[processes[1]].burst_time>>
    /\ frame.result.schedule[2][1] = heap[processes[2]].pid

\* the objects of the set S as a list in ascending (arrival_time, pid) order
InArrivalOrder(S) ==
    CHOOSE s \in [1..Cardinality(S) -> S] :
        /\ Range(s) = S
        /\ \A j, k \in 1..Cardinality(S) :
              j < k => KeyLess(KeyOf("arrival_pid", heap[s[j]]),
                               KeyOf("arrival_pid", heap[s[k]]))

\* the working copies of round_robin that have not been on the ready queue
\* yet: they have never run and are not waiting on it
NotYetQueued ==
    {o \in Range(frame.processes_copy) :
        /\ heap[o].remaining_time = heap[o].burst_time
        /\ o \notin Range(frame.ready_queue)}

\* C17: a turn of round_robin takes the head of the ready queue (after an
\* idle skip, of the queue of the processes that arrive first), executes it
\* for min(time_quantum, remaining_time) and nothing else, then puts on the
\* queue the processes that have arrived by the end of the slice, in
\* (arrival_time, pid) order, and after them the process that ran if it is
\* incomplete; a process that completed is not on the queue.
C17_RoundRobinProtocol ==
    (frame.alg = "round_robin" /\ InLoop(frame)) =>
        LET r == round_robin_step(heap, frame)
            idle == frame.ready_queue = <<>>
            first == CHOOSE t \in {heap[o].arrival_time : o \in NotYetQueued} :
                        \A o \in NotYetQueued : t <= heap[o].arrival_time
            start == IF idle THEN first ELSE frame.current_time
            queue == IF idle
                     THEN InArrivalOrder({o \in NotYetQueued : heap[o].arrival_time = first})
                     ELSE frame.ready_queue
            head == Head(queue)
            slice == Min(frame.time_quantum, heap[head].remaining_time)
            arrived == {o \in NotYetQueued \ Range(queue) :
                           heap[o].arrival_time <= start + slice}
            again == IF r.heap[head].remaining_time > 0 THEN <<head>> ELSE <<>>
        IN  /\ r.frame.pc = "loop"
            /\ r.heap = [heap EXCEPT ![head].remaining_time = @ - slice]
            /\ r.frame.current_time = start + slice
            /\ Last(r.frame.schedule)[1] = heap[head].pid
            /\ Last(r.frame.schedule)[3] = start + slice
            /\ Durations(r.frame.schedule, heap[head].pid)
                  = Durations(frame.schedule, heap[head].pid) + slice
            /\ r.frame.ready_queue = Tail(queue) \o InArrivalOrder(arrived) \o again
            /\ r.heap[head].remaining_time = 0 => head \notin Range(r.frame.ready_queue)

\* round_robin has run the first slice of a process that is left incomplete,
\* another process has arrived during the slice, and the queue holds the
\* arrival ahead of the process that ran
C17_Witness ==
    /\ frame.alg = "round_robin"
    /\ frame.pc = "loop"
    /\ Len(frame.schedule) = 1
    /\ Len(frame.ready_queue) = 2
    /\ heap[frame.ready_queue[1]].arrival_time > 0
    /\ heap[frame.ready_queue[1]].remaining_time = heap[frame.ready_queue[1]].burst_time
    /\ heap[frame.ready_queue[2]].pid = frame.schedule[1][1]
    /\ heap[frame.ready_queue[2]].remaining_time > 0
    /\ heap[frame.ready_queue[2]].remaining_time < heap[frame.ready_queue[2]].burst_time

\* C18: in every algorithm, an IDLE entry of the schedule built so far
\* starts where the entry before it ends (at 0 when it is the first), at a
\* time when every process that has arrived has already run its whole
\* burst, and ends at the earliest arrival among the processes that have
\* not arrived by then.
C18_WorkConservingIdle ==
    Called =>
        \A k \in 1..Len(frame.schedule) :
            LET entry == frame.schedule[k]
                before == SubSeq(frame.schedule, 1, k - 1)
                later == {o \in Range(processes) : heap[o].arrival_time > entry[2]}
            IN  ~NotIdle(entry) =>
                    /\ entry[2] = IF k = 1 THEN 0 ELSE frame.schedule[k - 1][3]
                    /\ \A o \in Range(processes) \ later :
                          Durations(before, heap[o].pid) = heap[o].burst_time
                    /\ \E o \in later : entry[3] = heap[o].arrival_time
                    /\ \A o \in later : entry[3] <= heap[o].arrival_time

\* sjf_non_preemptive has recorded an IDLE entry up to the arrival of its
\* two processes, and then the run of one of them
C18_Witness ==
    /\ frame.alg = "sjf_non_preemptive"
    /\ Len(processes) = 2
    /\ Len(frame.schedule) >= 2
    /\ ~NotIdle(frame.schedule[1])
    /\ frame.schedule[1][3] > 0
    /\ NotIdle(frame.schedule[2])

\* the processes of the caller's list that have an entry in the schedule
\* calculate_metrics was given, and the end of the last such entry
Completed == {o \in Range(processes) : Appears(frame.schedule, heap[o].pid)}

CompletionOf(o) ==
    LET mine == {k \in 1..Len(frame.schedule) : frame.schedule[k][1] = heap[o].pid}
    IN  frame.schedule[CHOOSE k \in mine : \A j \in mine : j <= k][3]

RECURSIVE SumOver(_, _)
\* the sum of Term(o) over the objects o of the set S
SumOver(S, which) ==
    IF S = {} THEN 0
    ELSE LET o == CHOOSE x \in S : TRUE
             term == CASE which = "turnaround" -> CompletionOf(o) - heap[o].arrival_time
                       [] which = "waiting" ->
                             CompletionOf(o) - heap[o].arrival_time - heap[o].burst_time
                       [] which = "burst" -> heap[o].burst_time
         IN  term + SumOver(S \ {o}, which)

\* value (in hundredths) is num / den rounded to 2 decimals: a hundredth
\* nearest to it, either of the two when num / den is half-way between them
\* (the float computed lies on one side of the half-way value or the other)
IsRounded(value, num, den) ==
    LET twice == 2 * (value * den - 100 * num)
    IN  /\ twice <= den
        /\ 0 - twice <= den

\* the metrics calculate_metrics returns for P1(0, 3), P2(1, 2) and the
\* schedule (P1, 0, 3), (P2, 3, 5)
MetricsExample ==
    calculate_metrics(<<Process("P1", 0, 3 * Unit, None), Process("P2", 1 * Unit, 2 * Unit, None)>>,
                      <<<<"P1", 0, 3 * Unit>>, <<"P2", 3 * Unit, 5 * Unit>>>>)

\* C19: calculate_metrics returns the exact mean of the turnaround times
\* (completion_time - arrival_time) of the completed processes and the exact
\* mean of their waiting times (turnaround time - burst_time), so that the
\* two averages differ by exactly the mean burst_time of those processes.
C19_ExactMeans ==
    (frame.alg = "calculate_metrics" /\ Completed # {}) =>
        LET m == frame.result.metrics
            n == Cardinality(Completed)
        IN  /\ m.average_turnaround_time * Unit * n = 100 * SumOver(Completed, "turnaround")
            /\ m.average_waiting_time * Unit * n = 100 * SumOver(Completed, "waiting")
            /\ (m.average_turnaround_time - m.average_waiting_time) * Unit * n
                  = 100 * SumOver(Completed, "burst")

\* C19, amended: calculate_metrics returns the mean of the turnaround times
\* of the completed processes rounded to 2 decimals and the mean of their
\* waiting times rounded to 2 decimals (0 and 0 when no process completed),
\* a mean half-way between two hundredths going to either of them, so that
\* the two averages differ by the mean burst_time of those processes to
\* within 0.01.  P1(0, 3), P2(1, 2) with (P1, 0, 3), (P2, 3, 5) gives 3.5
\* and 1.0.
C19_RoundedMeans ==
    frame.alg = "calculate_metrics" =>
        LET m == frame.result.metrics
            n == Cardinality(Completed)
            gap == (m.average_turnaround_time - m.average_waiting_time) * Unit * n
                      - 100 * SumOver(Completed, "burst")
        IN  /\ Completed = {} =>
                  m.average_turnaround_time = 0 /\ m.average_waiting_time = 0
            /\ Completed # {} =>
                  /\ IsRounded(m.average_turnaround_time,
                               SumOver(Completed, "turnaround"), Unit * n)
                  /\ IsRounded(m.average_waiting_time,
                               SumOver(Completed, "waiting"), Unit * n)
                  /\ gap <= Unit * n
                  /\ 0 - gap <= Unit * n
            /\ MetricsExample.average_turnaround_time = 350
            /\ MetricsExample.average_waiting_time = 100

\* calculate_metrics has returned for three completed processes whose mean
\* turnaround time has more than 2 decimals
C19_Witness ==
    /\ frame.alg = "calculate_metrics"
    /\ Cardinality(Completed) = 3
    /\ (100 * SumOver(Completed, "turnaround")) % (Unit * 3) # 0
    /\ frame.result.metrics.average_turnaround_time > 0

\* the time (ticks) the entries of processes take in a schedule
BusyTime(schedule) ==
    SumSeq([k \in 1..Len(schedule) |->
              IF NotIdle(schedule[k]) THEN schedule[k][3] - schedule[k][2] ELSE 0])

\* C20: the result an algorithm returns for a non-empty list has total_time
\* equal to the end of the last entry of its schedule and cpu_utilization
\* equal to exactly 100 * (time of the entries of processes) / total_time,
\* between 0 and 100, and 100 exactly when the schedule has no IDLE entry.
C20_ExactUtilization ==
    (Called /\ frame.pc = "returned" /\ processes # <<>>) =>
        LET s == frame.result.schedule
            m == frame.result.metrics
        IN  /\ Unit * m.total_time = 100 * Last(s)[3]
            /\ m.cpu_utilization * Last(s)[3] = 10000 * BusyTime(s)
            /\ m.cpu_utilization >= 0
            /\ m.cpu_utilization <= 10000
            /\ m.cpu_utilization = 10000 <=> ~Appears(s, IDLE)

\* C20, amended: the result an algorithm returns for a non-empty list has
\* total_time equal to the end of the last entry of its schedule rounded to
\* 2 decimals and cpu_utilization equal to 100 * (time of the entries of
\* processes) / (end of the last entry) rounded to 2 decimals (a percentage
\* half-way between two hundredths going to either of them), between 0 and
\* 100; it is 100 when the schedule has no IDLE entry, and when it has one
\* it is below 100 unless the IDLE time is at most 0.005% of the whole.
C20_RoundedUtilization ==
    (Called /\ frame.pc = "returned" /\ processes # <<>>) =>
        LET s == frame.result.schedule
            m == frame.result.metrics
            end == Last(s)[3]
        IN  /\ IsRounded(m.total_time, end, Unit)
            /\ IsRounded(m.cpu_utilization, 100 * BusyTime(s), end)
            /\ m.cpu_utilization >= 0
            /\ m.cpu_utilization <= 10000
            /\ ~Appears(s, IDLE) => m.cpu_utilization = 10000
            /\ Appears(s, IDLE) =>
                  \/ m.cpu_utilization < 10000
                  \/ 20000 * (end - BusyTime(s)) <= end

\* an algorithm has returned a schedule with an IDLE entry whose share of
\* process time is, as a percentage, half-way between two hundredths, and
\* cpu_utilization is the odd one of the two (11.5 of 80 time units: 14.37)
C20_Witness ==
    /\ Called
    /\ frame.pc = "returned"
    /\ processes # <<>>
    /\ Appears(frame.result.schedule, IDLE)
    /\ HalfWay(10000 * BusyTime(frame.result.schedule), Last(frame.result.schedule)[3])
    /\ frame.result.metrics.cpu_utilization % 2 = 1

\* the text of an algorithm name contains "Round Robin"
ContainsRoundRobin(algorithm_name) ==
    algorithm_name # <<>>
    /\ algorithm_name[1] \in {"Round Robin", "Round Robin (Quantum: "}

\* the text of an algorithm name holds the formatted value of time_quantum
\* (a name is one piece of text, or text, a formatted number and text)
EncodesQuantum(algorithm_name, time_quantum) ==
    Len(algorithm_name) = 3 /\ algorithm_name[2] = time_quantum

\* C21: every result round_robin returns has an algorithm name that
\* contains "Round Robin" and the value of the time_quantum the call was
\* given.
C21_NameEncodesQuantum ==
    (frame.alg = "round_robin" /\ frame.pc = "returned") =>
        /\ ContainsRoundRobin(frame.result.algorithm_name)
        /\ EncodesQuantum(frame.result.algorithm_name, frame.time_quantum)

\* every process of the caller's list has run its whole burst in a schedule
CompletesAll(schedule) ==
    \A k \in 1..Len(processes) :
        Durations(schedule, heap[processes[k]].pid) = heap[processes[k]].burst_time

\* the schedule round_robin returns for P1(0, 5), P2(0, 3)
QuantumExample(time_quantum) ==
    round_robin(<<Process("P1", 0, 5 * Unit, None), Process("P2", 0, 3 * Unit, None)>>,
                <<1, 2>>, time_quantum).frame.result.schedule

\* the result round_robin returns for the caller's list with another quantum
WithQuantum(time_quantum) ==
    round_robin(CallerHeap, processes, time_quantum).frame.result

\* C22: the schedule round_robin returns has at least as many entries as the
\* schedule it returns for the same list with any larger quantum, and both
\* complete every process; for P1(0, 5), P2(0, 3) the quantum 1.0 gives more
\* entries than the quantum 3.0.
C22_SmallerQuantumMoreEntries ==
    (frame.alg = "round_robin" /\ frame.pc = "returned") =>
        /\ CompletesAll(frame.result.schedule)
        /\ \A q2 \in (frame.time_quantum + 1)..MaxLongQuantum :
              /\ CompletesAll(WithQuantum(q2).schedule)
              /\ Len(frame.result.schedule) >= Len(WithQuantum(q2).schedule)
        /\ Len(QuantumExample(Unit)) > Len(QuantumExample(3 * Unit))

\* all the processes of the caller's list arrive at the same time
ArriveTogether ==
    \A j, k \in 1..Len(processes) :
        heap[processes[j]].arrival_time = heap[processes[k]].arrival_time

\* C22, amended: round_robin completes every process with every quantum; for
\* a list whose processes all arrive at the same time, the schedule it
\* returns has at least as many entries as the schedule it returns with any
\* larger quantum; for P1(0, 5), P2(0, 3) the quantum 1.0 gives more entries
\* than the quantum 3.0.
C22_SmallerQuantumTogether ==
    (frame.alg = "round_robin" /\ frame.pc = "returned") =>
        /\ CompletesAll(frame.result.schedule)
        /\ \A q2 \in (frame.time_quantum + 1)..MaxLongQuantum :
              /\ CompletesAll(WithQuantum(q2).schedule)
              /\ ArriveTogether =>
                    Len(frame.result.schedule) >= Len(WithQuantum(q2).schedule)
        /\ Len(QuantumExample(Unit)) > Len(QuantumExample(3 * Unit))

\* round_robin has returned, for two processes that arrive together, a
\* schedule with more entries than the one it returns with a larger quantum
C22_Witness ==
    /\ frame.alg = "round_robin"
    /\ frame.pc = "returned"
    /\ Len(processes) = 2
    /\ ArriveTogether
    /\ frame.time_quantum < MaxLongQuantum
    /\ Len(frame.result.schedule) > Len(WithQuantum(MaxLongQuantum).schedule)

\* the objects a call works on that are not the caller's
WorkingCopies(f) == Range(f.processes_copy) \ Range(processes)

\* C23: when the calls of two callers on the same list interleave step by
\* step, the working copies of one call are never those of the other and
\* each call ends with the outcome (schedule, metrics, algorithm name, or
\* error) it has when it runs alone.
C23_InterleavedRuns ==
    /\ WorkingCopies(frame) \cap WorkingCopies(peer) = {}
    /\ \A f \in {frame, peer} :
          Ended(f) =>
              Outcome(f) = Outcome(CallOf(f.alg, CallerHeap, processes, f.time_quantum).frame)

\* two calls of sjf_preemptive on a list of two processes are both part-way
\* through their loops, each with a schedule and working copies of its own
C23_Witness ==
    /\ frame.alg = "sjf_preemptive"
    /\ peer.alg = "sjf_preemptive"
    /\ Len(processes) = 2
    /\ InLoop(frame)
    /\ InLoop(peer)
    /\ frame.schedule # <<>>
    /\ peer.schedule # <<>>
    /\ Len(frame.schedule) # Len(peer.schedule)

\* the algorithms that execute their working copies slice by slice
SlicingAlgorithms == {"sjf_preemptive", "priority_preemptive", "round_robin"}

\* C24: in a run of sjf_preemptive, priority_preemptive or round_robin the
\* remaining_time of every working copy is its burst_time when the copy is
\* made, never increases in a step, is never negative, and is 0 exactly when
\* the process is in the completed set.
C24_RemainingTime ==
    [][frame'.alg \in SlicingAlgorithms =>
          \A o \in Range(frame'.processes_copy) :
              /\ heap'[o].remaining_time >= 0
              /\ heap'[o].remaining_time <= heap'[o].burst_time
              /\ heap'[o].remaining_time = 0 <=> heap'[o].pid \in frame'.completed_processes
              /\ IF o \in Range(frame.processes_copy)
                 THEN heap'[o].remaining_time <= heap[o].remaining_time
                 ELSE heap'[o].remaining_time = heap'[o].burst_time]_vars

\* round_robin is part-way through a run on two processes: one working copy
\* has completed, the other has run a part of its burst
C24_Witness ==
    /\ frame.alg = "round_robin"
    /\ frame.pc = "loop"
    /\ Len(frame.processes_copy) = 2
    /\ \E o, p \in Range(frame.processes_copy) :
          /\ heap[o].remaining_time = 0
          /\ heap[o].pid \in frame.completed_processes
          /\ heap[p].remaining_time > 0
          /\ heap[p].remaining_time < heap[p].burst_time

NonPreemptiveAlgorithms == {"fcfs", "sjf_non_preemptive", "priority_non_preemptive"}

\* the positions of the entries of pid in a schedule
EntriesOf(schedule, pid) == {k \in 1..Len(schedule) : schedule[k][1] = pid}

OnReadyHeap(f) == {f.ready_queue[k][3] : k \in 1..Len(f.ready_queue)}

\* C27: a step of sjf_preemptive or priority_preemptive that starts with an
\* arrived incomplete process executes one process, for exactly
\* min(1.0, remaining_time), and the time advances by as much; the process
\* executed and the processes on the ready heap after the step had all
\* arrived when the step started, so that a process that arrives strictly
\* inside the step neither runs nor is admitted before the step has ended.
C27_StepGranularity ==
    (frame.alg \in PreemptiveAlgorithms /\ InLoop(frame) /\ ArrivedIncomplete # {}) =>
        LET r == StepOf(heap, frame)
        IN  /\ r.frame.pc = "loop"
            /\ \E o \in ArrivedIncomplete :
                  LET slice == Min(Unit, heap[o].remaining_time)
                  IN  /\ r.heap = [heap EXCEPT ![o].remaining_time = @ - slice]
                      /\ r.frame.current_time = frame.current_time + slice
                      /\ Last(r.frame.schedule)
                            = <<heap[o].pid, Last(r.frame.schedule)[2], r.frame.current_time>>
            /\ OnReadyHeap(r.frame) \subseteq ArrivedIncomplete
            /\ \A o \in Range(frame.processes_copy) :
                  heap[o].arrival_time > frame.current_time =>
                      /\ r.heap[o].remaining_time = heap[o].burst_time
                      /\ o \notin OnReadyHeap(r.frame)
                      /\ r.frame.current_process # o

\* sjf_preemptive has run the first step of a process that is left
\* incomplete; a shorter process arrived strictly inside the step and has
\* neither run nor been admitted
C27_Witness ==
    /\ frame.alg = "sjf_preemptive"
    /\ frame.pc = "loop"
    /\ Len(frame.processes_copy) = 2
    /\ frame.schedule = <<<<heap[frame.processes_copy[1]].pid, 0, Unit>>>>
    /\ frame.current_time = Unit
    /\ heap[frame.processes_copy[1]].remaining_time > 0
    /\ heap[frame.processes_copy[2]].arrival_time > 0
    /\ heap[frame.processes_copy[2]].arrival_time < Unit
    /\ heap[frame.processes_copy[2]].burst_time < heap[frame.processes_copy[1]].burst_time
    /\ heap[frame.processes_copy[2]].remaining_time = heap[frame.processes_copy[2]].burst_time
    /\ frame.ready_queue = <<>>
    /\ frame.i = 1

\* the start of the first entry of pid in a schedule
FirstStart(schedule, pid) ==
    schedule[CHOOSE k \in EntriesOf(schedule, pid) :
                \A j \in EntriesOf(schedule, pid) : k <= j][2]

\* C28: in the schedule any algorithm returns, of two processes with equal
\* arrival_time, burst_time and priority the one with the smaller pid has
\* its first entry earlier, wherever the two stand in the caller's list; in
\* round_robin this holds of any two processes that arrive at the same time
\* (they are put on the queue in ascending pid order).
C28_PidTieBreak ==
    (Called /\ frame.pc = "returned") =>
        \A o, p \in Range(processes) :
            (/\ PidRank(heap[o].pid) < PidRank(heap[p].pid)
             /\ heap[o].arrival_time = heap[p].arrival_time
             /\ \/ frame.alg = "round_robin"
                \/ /\ heap[o].burst_time = heap[p].burst_time
                   /\ heap[o].priority = heap[p].priority) =>
                FirstStart(frame.result.schedule, heap[o].pid)
                    < FirstStart(frame.result.schedule, heap[p].pid)

\* priority_preemptive has returned for a list of two processes equal in
\* arrival_time, burst_time and priority, the second of the list having the
\* smaller pid and the first entry of the schedule
C28_Witness ==
    /\ frame.alg = "priority_preemptive"
    /\ frame.pc = "returned"
    /\ Len(processes) = 2
    /\ PidRank(heap[processes[2]].pid) < PidRank(heap[processes[1]].pid)
    /\ heap[processes[1]].arrival_time = heap[processes[2]].arrival_time
    /\ heap[processes[1]].burst_time = heap[processes[2]].burst_time
    /\ heap[processes[1]].priority = heap[processes[2]].priority
    /\ frame.result.schedule[1][1] = heap[processes[2]].pid

\* C29: calculate_metrics returns total_processes equal to the length of the
\* list, whether its processes have entries or not; its two averages are
\* taken (rounded to 2 decimals) over the processes that have an entry in
\* the schedule only, with the end_time of the last entry of the pid in the
\* order of the list as completion time (IDLE entries are no process's), and
\* are 0 when no process has an entry; total_time and cpu_utilization are 0
\* for an empty schedule.
C29_MetricsOfEntries ==
    frame.alg = "calculate_metrics" =>
        LET m == frame.result.metrics
            n == Cardinality(Completed)
        IN  /\ m.total_processes = Len(processes)
            /\ IF Completed = {}
               THEN m.average_turnaround_time = 0 /\ m.average_waiting_time = 0
               ELSE /\ IsRounded(m.average_turnaround_time,
                                 SumOver(Completed, "turnaround"), Unit * n)
                    /\ IsRounded(m.average_waiting_time,
                                 SumOver(Completed, "waiting"), Unit * n)
            /\ frame.schedule = <<>> => m.total_time = 0 /\ m.cpu_utilization = 0
            /\ (\A k \in 1..Len(frame.schedule) : ~NotIdle(frame.schedule[k])) =>
                  m.average_turnaround_time = 0 /\ m.average_waiting_time = 0

\* calculate_metrics has returned for a list of two processes and a schedule
\* of an IDLE entry and two entries of the first process, the later of which
\* ends before the earlier one; the second process has no entry
C29_Witness ==
    /\ frame.alg = "calculate_metrics"
    /\ Len(processes) = 2
    /\ Len(frame.schedule) = 3
    /\ ~NotIdle(frame.schedule[1])
    /\ frame.schedule[2][1] = heap[processes[1]].pid
    /\ frame.schedule[3][1] = heap[processes[1]].pid
    /\ frame.schedule[3][3] < frame.schedule[2][3]
    /\ frame.result.metrics.total_processes = 2
    /\ frame.result.metrics.average_turnaround_time
          = (100 * (frame.schedule[3][3] - heap[processes[1]].arrival_time)) \div Unit

\* the caller's list is one process that arrives at 0, and the call made
\* on it has ended (that of round_robin having been given a positive
\* quantum)
SingleProcessDone ==
    /\ Called
    /\ Ended(frame)
    /\ Len(processes) = 1
    /\ heap[processes[1]].arrival_time = 0
    /\ frame.alg = "round_robin" => frame.time_quantum > 0

\* C30 as stated: called with a list of one process that arrives at 0,
\* each of the six algorithms returns the schedule of the one entry
\* (pid, 0, burst_time) with average_waiting_time 0, average_turnaround_time
\* burst_time and cpu_utilization 100.
C30_AnySingleProcess ==
    SingleProcessDone =>
        LET p == heap[processes[1]]
            m == frame.result.metrics
        IN  /\ frame.pc = "returned"
            /\ frame.result.schedule = <<<<p.pid, 0, p.burst_time>>>>
            /\ m.average_waiting_time = 0
            /\ Unit * m.average_turnaround_time = 100 * p.burst_time
            /\ m.cpu_utilization = 10000

\* C30: called with a list of one process that arrives at 0, the two
\* priority algorithms raise ValueError when the process has no priority;
\* otherwise each of the six algorithms (round_robin with a positive
\* quantum) returns the schedule of the one entry (pid, 0, burst_time),
\* slices merged, with average_waiting_time 0, average_turnaround_time and
\* total_time round(burst_time, 2) and cpu_utilization 100.
C30_SingleProcess ==
    SingleProcessDone =>
        LET p == heap[processes[1]]
            m == frame.result.metrics
        IN  IF frame.alg \in PriorityAlgorithms /\ p.priority = None
            THEN frame.pc = "raised" /\ frame.error = "ValueError"
            ELSE /\ frame.pc = "returned"
                 /\ frame.result.schedule = <<<<p.pid, 0, p.burst_time>>>>
                 /\ m.average_waiting_time = 0
                 /\ m.average_turnaround_time = RoundHalfEven(100 * p.burst_time, Unit)
                 /\ m.total_time = RoundHalfEven(100 * p.burst_time, Unit)
                 /\ m.cpu_utilization = 10000

\* round_robin has returned for one process without priority that arrives
\* at 0 and needs more than two slices of the quantum
C30_Witness ==
    /\ frame.alg = "round_robin"
    /\ frame.pc = "returned"
    /\ Len(processes) = 1
    /\ heap[processes[1]].arrival_time = 0
    /\ heap[processes[1]].priority = None
    /\ heap[processes[1]].burst_time > 2 * frame.time_quantum
    /\ frame.time_quantum > 0
    /\ Len(frame.result.schedule) = 1

\* C31: fcfs_scheduling on decimal times executes no process before its
\* arrival time: every entry of a process in the schedule returned starts
\* at or after the arrival_time of that process; hence the waiting time of
\* each process, (completion_time - arrival_time) - burst_time as
\* calculate_metrics computes it, is >= 0, its turnaround time is >= its
\* burst_time, and average_waiting_time is not negative.
C31_NoEarlyExecution ==
    (frame.alg = "fcfs" /\ frame.pc = "returned" /\ processes # <<>>) =>
        /\ \A k \in 1..Len(frame.result.schedule) :
              LET entry == frame.result.schedule[k]
              IN  NotIdle(entry) =>
                      FloatCompare(entry[2], InputProcess(entry[1]).arrival_time) >= 0
        /\ \A o \in Range(processes) :
              LET completion_time == CompletionTime(frame.result.schedule, heap[o].pid)
                  turnaround_time == FloatMinus(completion_time, heap[o].arrival_time)
                  waiting_time == FloatMinus(turnaround_time, heap[o].burst_time)
              IN  /\ HasCompletion(frame.result.schedule, heap[o].pid)
                  /\ FloatCompare(turnaround_time, heap[o].burst_time) >= 0
                  /\ FloatCompare(waiting_time, FloatZero) >= 0
        /\ frame.result.metrics.average_waiting_time >= 0

\* every process of the caller's list arrives at time 0
ArriveAtZero == \A k \in 1..Len(processes) : heap[processes[k]].arrival_time = 0

\* C32: for a list whose processes all arrive at time 0, sjf_preemptive
\* returns the schedule sjf_non_preemptive returns and priority_preemptive
\* returns the schedule priority_non_preemptive returns.
C32_NothingToPreempt ==
    (frame.pc = "returned" /\ ArriveAtZero) =>
        /\ frame.alg = "sjf_preemptive" =>
              frame.result.schedule =
                  sjf_non_preemptive(CallerHeap, processes).frame.result.schedule
        /\ frame.alg = "priority_preemptive" =>
              frame.result.schedule =
                  priority_non_preemptive(CallerHeap, processes).frame.result.schedule

\* the quantum of the call is at least the burst_time of every process
QuantumCoversBursts ==
    \A k \in 1..Len(processes) : heap[processes[k]].burst_time <= frame.time_quantum

\* C33: round_robin called with a time_quantum greater than or equal to the
\* burst_time of every process returns the schedule and the metrics that
\* fcfs_scheduling returns for the same list.
C33_LargeQuantumIsFcfs ==
    (frame.alg = "round_robin" /\ frame.pc = "returned" /\ QuantumCoversBursts) =>
        LET fcfs == fcfs_scheduling(CallerHeap, processes).frame.result
        IN  /\ frame.result.schedule = fcfs.schedule
            /\ frame.result.metrics = fcfs.metrics

\* round_robin has returned, for two processes shorter than the quantum, a
\* schedule with an IDLE entry between them
C33_Witness ==
    /\ frame.alg = "round_robin"
    /\ frame.pc = "returned"
    /\ QuantumCoversBursts
    /\ Len(processes) = 2
    /\ \E k \in 1..2 : heap[processes[k]].burst_time < frame.time_quantum
    /\ Len(frame.result.schedule) = 3
    /\ ~NotIdle(frame.result.schedule[2])

\* the processes executed by the next n turns of round_robin from heap h
\* and frame f, one per turn
RECURSIVE SlicesFrom(_, _, _)
SlicesFrom(h, f, n) ==
    IF n = 0 THEN <<>>
    ELSE LET r == round_robin_step(h, f)
         IN  <<r.frame.current_process>> \o SlicesFrom(r.heap, r.frame, n - 1)

\* the process that ran the last slice has been put back on the ready queue
Requeued ==
    /\ frame.alg = "round_robin"
    /\ frame.pc = "loop"
    /\ frame.current_process # None
    /\ heap[frame.current_process].remaining_time > 0

\* C34: when round_robin has put the process P that ran back on the ready
\* queue, the turns that follow give one slice to each of the other
\* processes that are on the queue at that moment, in queue order, and the
\* next one to P: P runs again before any of them runs a second time.
C34_BoundedWaiting ==
    Requeued =>
        LET P == frame.current_process
            others == SelectSeq(frame.ready_queue, LAMBDA o : o # P)
        IN  /\ Len(frame.ready_queue) = Len(others) + 1
            /\ SlicesFrom(heap, frame, Len(others) + 1) = Append(others, P)

\* round_robin has put back on the queue a process that ran while two other
\* incomplete processes wait on it, one of which has run before
C34_Witness ==
    /\ Requeued
    /\ Len(frame.ready_queue) = 3
    /\ \E k \in 1..2 :
          heap[frame.ready_queue[k]].remaining_time < heap[frame.ready_queue[k]].burst_time

\* the length of an entry of a schedule
EntryLength(entry) == entry[3] - entry[2]

\* C35: in round_robin the turn after a slice of process P gives the slice
\* to another process whenever one is on the ready queue once the arrivals
\* have been admitted, and P's entry then stays as it is; an entry grows
\* beyond time_quantum only by a turn that finds P alone on the ready queue.
\* The entries before the last one never change.
C35_YieldAtQuantum ==
    (frame.alg = "round_robin" /\ InLoop(frame) /\ frame.schedule # <<>>) =>
        LET r == round_robin_step(heap, frame)
            P == frame.current_process
            n == Len(frame.schedule)
            waiting == {o \in Range(frame.ready_queue) : o # P}
            last == Last(r.frame.schedule)
        IN  /\ SubSeq(r.frame.schedule, 1, n - 1) = SubSeq(frame.schedule, 1, n - 1)
            /\ waiting # {} =>
                  /\ r.frame.current_process \in waiting
                  /\ r.frame.current_process = Head(frame.ready_queue)
                  /\ Len(r.frame.schedule) = n + 1
                  /\ r.frame.schedule[n] = frame.schedule[n]
                  /\ EntryLength(last) <= frame.time_quantum
            /\ EntryLength(last) > frame.time_quantum =>
                  /\ frame.ready_queue = <<P>>
                  /\ Len(r.frame.schedule) = n
                  /\ last = <<heap[P].pid, frame.schedule[n][2], r.frame.current_time>>
                  /\ EntryLength(last) <= EntryLength(frame.schedule[n]) + frame.time_quantum

\* round_robin is about to extend beyond the quantum the entry of a process
\* that is alone on the queue, after two processes have taken turns
C35_Witness ==
    /\ frame.alg = "round_robin"
    /\ InLoop(frame)
    /\ Len(frame.schedule) >= 3
    /\ frame.ready_queue = <<frame.current_process>>
    /\ EntryLength(Last(frame.schedule)) = frame.time_quantum
    /\ Len(round_robin_step(heap, frame).frame.schedule) = Len(frame.schedule)

\* the algorithms that are documented not to use the priority
PlainAlgorithms == {"fcfs", "sjf_non_preemptive", "sjf_preemptive", "round_robin"}

\* the caller's objects with the priority of every process left out
WithoutPriority == [o \in 1..Len(processes) |-> [heap[o] EXCEPT !.priority = None]]

\* C36: the priority does not influence fcfs_scheduling, sjf_non_preemptive,
\* sjf_preemptive or round_robin: a call ends with the outcome (schedule,
\* metrics, algorithm name, or error) the same call has on the list with
\* every priority left out, whatever priorities the processes have or lack,
\* so that two lists that differ in priorities only give the same outcome;
\* and no such call raises ValueError for a missing priority.
C36_PriorityIgnored ==
    (frame.alg \in PlainAlgorithms /\ Ended(frame)) =>
        /\ Outcome(frame)
              = Outcome(CallOf(frame.alg, WithoutPriority, processes, frame.time_quantum).frame)
        /\ frame.time_quantum >= 0 => frame.error # "ValueError"

\* sjf_non_preemptive has returned the shorter process P2 first although
\* P1 has the better priority and P2 has none
C36_Witness ==
    /\ frame.alg = "sjf_non_preemptive"
    /\ frame.pc = "returned"
    /\ Len(processes) = 2
    /\ heap[1].priority = 0
    /\ heap[2].priority = None
    /\ heap[1].arrival_time = heap[2].arrival_time
    /\ heap[2].burst_time < heap[1].burst_time
    /\ frame.result.schedule[Len(frame.result.schedule) - 1][1] = heap[2].pid

\* C37: for a non-empty list whose processes all arrive at time 0, the
\* average_waiting_time sjf_non_preemptive reports is less than or equal to
\* the average_waiting_time fcfs_scheduling reports for the same list.
C37_SjfWaitsNoLonger ==
    (/\ frame.alg = "sjf_non_preemptive"
     /\ frame.pc = "returned"
     /\ processes # <<>>
     /\ ArriveAtZero) =>
        frame.result.metrics.average_waiting_time
            <= fcfs_scheduling(CallerHeap, processes).frame.result.metrics.average_waiting_time

\* sjf_non_preemptive has returned, for two processes that arrive at time 0
\* with the longer one first in pid order, an average waiting time below the
\* one fcfs_scheduling reports
C37_Witness ==
    /\ frame.alg = "sjf_non_preemptive"
    /\ frame.pc = "returned"
    /\ Len(processes) = 2
    /\ ArriveAtZero
    /\ heap[1].burst_time > heap[2].burst_time
    /\ frame.result.metrics.average_waiting_time
          < fcfs_scheduling(CallerHeap, processes).frame.result.metrics.average_waiting_time

\* the ready heap of a preemptive algorithm once the iteration the frame is
\* about to make has pushed the processes that have arrived
AdmittedHeap ==
    PushArrived(heap, frame.ready_queue, frame.processes_copy, frame.i,
                AdmitUpTo(heap, frame.processes_copy, frame.i, frame.current_time),
                IF frame.alg = "sjf_preemptive" THEN "remaining_pid" ELSE "priority_pid")

\* the number of places object o takes in a list of objects
TimesIn(s, o) == Cardinality({k \in 1..Len(s) : s[k] = o})

\* The ready heap q of a preemptive algorithm keeps the books of the frame:
\* every arrived incomplete process is either the current process or on
\* the heap exactly once, never both; the heap holds no completed process
\* and no process that has not arrived, and each tuple on it carries the
\* current remaining_time (sjf_preemptive) or the priority
\* (priority_preemptive) and the pid of its process.
HeapKept(q) ==
    LET ready == [k \in 1..Len(q) |-> q[k][3]]
    IN  /\ \A o \in ArrivedIncomplete :
              IF o = frame.current_process
              THEN TimesIn(ready, o) = 0
              ELSE TimesIn(ready, o) = 1
        /\ Range(ready) \subseteq ArrivedIncomplete
        /\ frame.current_process # None => frame.current_process \in ArrivedIncomplete
        /\ \A k \in 1..Len(q) :
              /\ q[k][2] = heap[ready[k]].pid
              /\ q[k][2] \notin frame.completed_processes
              /\ q[k][1] = IF frame.alg = "sjf_preemptive"
                           THEN heap[ready[k]].remaining_time
                           ELSE heap[ready[k]].priority

\* The ready queue of round_robin keeps the books of the frame: every
\* arrived incomplete process is on it exactly once and it holds no other
\* process.
QueueKept ==
    /\ \A o \in ArrivedIncomplete : TimesIn(frame.ready_queue, o) = 1
    /\ Range(frame.ready_queue) \subseteq ArrivedIncomplete
    /\ \A k \in 1..Len(frame.ready_queue) :
          heap[frame.ready_queue[k]].pid \notin frame.completed_processes

\* C38: at the start of every loop iteration of sjf_preemptive,
\* priority_preemptive and round_robin, every arrived incomplete process is
\* either the current process or held in the ready heap/queue exactly once,
\* no completed process is in the ready set, and the key stored for a
\* process on the heap is its current remaining_time (or priority).
C38_ReadySetAtLoopHead ==
    /\ (frame.alg \in PreemptiveAlgorithms /\ InLoop(frame)) => HeapKept(frame.ready_queue)
    /\ (frame.alg = "round_robin" /\ InLoop(frame)) => QueueKept

\* C38, amended: in every loop iteration of sjf_preemptive and
\* priority_preemptive, once the iteration has pushed the new arrivals on
\* the ready heap, and at the start of every loop iteration of round_robin,
\* every arrived incomplete process is either the current process or held
\* in the ready heap/queue exactly once, no completed process is in the
\* ready set, and the key stored for a process on the heap is its current
\* remaining_time (or priority).
C38_ReadySetBookkeeping ==
    /\ (frame.alg \in PreemptiveAlgorithms /\ InLoop(frame)) => HeapKept(AdmittedHeap)
    /\ (frame.alg = "round_robin" /\ InLoop(frame)) => QueueKept

\* sjf_preemptive starts an iteration with a current process that has run
\* and is incomplete, while the other process, which arrived during the
\* last slice, is pushed on the ready heap
C38_Witness ==
    /\ frame.alg = "sjf_preemptive"
    /\ InLoop(frame)
    /\ frame.current_process # None
    /\ heap[frame.current_process].remaining_time < heap[frame.current_process].burst_time
    /\ frame.ready_queue = <<>>
    /\ Len(AdmittedHeap) = 1
    /\ heap[AdmittedHeap[1][3]].arrival_time > 0

====
